---------------------------- MODULE Spec2Model ----------------------------
(***************************************************************************)
(* A model of the loot generation and deduplication pipeline of ai-loot:   *)
(* LootGenerator.generateLoot / generateAndSaveLoot / generateLootSet      *)
(* (loot-generator.ts), the zod schemas of types.ts, LootDatabase.saveItem *)
(* and its reads (database.ts) and the list command of App.tsx.            *)
(*                                                                         *)
(* Numbers: every stat value is kept in hundredths (2.5 is 250), so that   *)
(* the two-decimal rounding of randomInRange and Math.round are integer    *)
(* arithmetic.  Rarity is kept as the integer the code computes.           *)
(* Absent values: a JavaScript property that is undefined is the string    *)
(* Undef; an SQL NULL read back from a row is the string Null.             *)
(***************************************************************************)
EXTENDS Integers, Sequences, FiniteSets, TLC

(***************************************************************************)
(* Bounds of the model.                                                    *)
(***************************************************************************)
\* Math.random() is one of 0/RandSteps .. (RandSteps-1)/RandSteps.
RandSteps == 3
\* The largest count a generateLoot request of Spec carries.
MaxCount == 2
\* The largest count a generateLoot request of SpecBatch carries.
MaxBatch == 4
\* The number of rows the store may hold in SpecStore.
MaxRows == 3
\* The largest number of item types a generateLootSet call names.
MaxSetTypes == 3
\* The largest limit a getAllItems call or a list command of SpecQuery names.
MaxLimit == 2
\* The largest number of models the service lists in SpecAux.
MaxModels == 2
\* The number of testConnection and getAvailableModels calls of SpecAux.
MaxAuxCalls == 3

\* The invocations that run against one store at a time.
MaxInvocations == 2

\* The items one of those invocations has generated, at most.
MaxRaceItems == 2

Undef == "undefined"
Null == "null"
\* A JSON value that is not a string where the shape wants a string (e.g. 7).
NonString == "<non-string>"

(***************************************************************************)
(* types.ts: the enumerations.                                             *)
(***************************************************************************)
LootTier == {"Bronze", "Silver", "Gold", "Platinum", "Legendary", "Celestial"}

ItemType ==
    {"Weapon", "Armor", "Accessory", "Consumable", "Material", "Rune", "Artifact"}

WeaponSubType ==
    <<"Sword", "Axe", "Mace", "Dagger", "Bow", "Crossbow", "Staff", "Wand",
      "Spear", "Hammer", "Shield">>

ArmorSubType ==
    <<"Helmet", "Chestpiece", "Leggings", "Boots", "Gloves", "Cloak", "Greaves",
      "Pauldrons", "Bracers">>

AccessorySubType == <<"Ring", "Amulet", "Earrings", "Brooch", "Pendant">>

ConsumableSubType == <<"Potion", "Scroll", "Food", "Elixir", "Tome">>

MaterialSubType == <<"Ore", "Gem", "Essence", "Crystal", "Herb">>

Range(seq) == {seq[n] : n \in DOMAIN seq}

(***************************************************************************)
(* loot-generator.ts: the stat range tables.                               *)
(***************************************************************************)
(* getWeaponStatRanges: the ranges of each tier, every bound in hundredths. *)
getWeaponStatRanges(tier) ==
    CASE tier = "Bronze" ->
          [ damage |-> [min |-> 800, max |-> 1500],
            attackSpeed |-> [min |-> -1000, max |-> 1000],
            criticalChance |-> [min |-> 200, max |-> 600],
            criticalDamage |-> [min |-> 15000, max |-> 18000],
            range |-> [min |-> 100, max |-> 300],
            accuracy |-> [min |-> -500, max |-> 500],
            durability |-> [min |-> 5000, max |-> 10000],
            weight |-> [min |-> 100, max |-> 400],
            value |-> [min |-> 5000, max |-> 15000] ]
      [] tier = "Silver" ->
          [ damage |-> [min |-> 1200, max |-> 2200],
            attackSpeed |-> [min |-> -500, max |-> 2000],
            criticalChance |-> [min |-> 400, max |-> 1000],
            criticalDamage |-> [min |-> 16000, max |-> 20000],
            range |-> [min |-> 100, max |-> 400],
            accuracy |-> [min |-> -300, max |-> 800],
            durability |-> [min |-> 8000, max |-> 14000],
            weight |-> [min |-> 80, max |-> 450],
            value |-> [min |-> 10000, max |-> 30000] ]
      [] tier = "Gold" ->
          [ damage |-> [min |-> 1800, max |-> 3500],
            attackSpeed |-> [min |-> 0, max |-> 3000],
            criticalChance |-> [min |-> 600, max |-> 1500],
            criticalDamage |-> [min |-> 18000, max |-> 23000],
            range |-> [min |-> 100, max |-> 500],
            accuracy |-> [min |-> 0, max |-> 1200],
            durability |-> [min |-> 12000, max |-> 20000],
            weight |-> [min |-> 60, max |-> 500],
            value |-> [min |-> 20000, max |-> 60000] ]
      [] tier = "Platinum" ->
          [ damage |-> [min |-> 3000, max |-> 5500],
            attackSpeed |-> [min |-> 500, max |-> 4500],
            criticalChance |-> [min |-> 1000, max |-> 2200],
            criticalDamage |-> [min |-> 20000, max |-> 28000],
            range |-> [min |-> 200, max |-> 700],
            accuracy |-> [min |-> 500, max |-> 1800],
            durability |-> [min |-> 18000, max |-> 28000],
            weight |-> [min |-> 40, max |-> 600],
            value |-> [min |-> 40000, max |-> 120000] ]
      [] tier = "Legendary" ->
          [ damage |-> [min |-> 4500, max |-> 8500],
            attackSpeed |-> [min |-> 1500, max |-> 6500],
            criticalChance |-> [min |-> 1800, max |-> 3500],
            criticalDamage |-> [min |-> 25000, max |-> 35000],
            range |-> [min |-> 300, max |-> 1000],
            accuracy |-> [min |-> 1000, max |-> 2500],
            durability |-> [min |-> 25000, max |-> 40000],
            weight |-> [min |-> 30, max |-> 700],
            value |-> [min |-> 80000, max |-> 250000] ]
      [] tier = "Celestial" ->
          [ damage |-> [min |-> 7500, max |-> 15000],
            attackSpeed |-> [min |-> 3000, max |-> 10000],
            criticalChance |-> [min |-> 2500, max |-> 5000],
            criticalDamage |-> [min |-> 30000, max |-> 50000],
            range |-> [min |-> 500, max |-> 1500],
            accuracy |-> [min |-> 2000, max |-> 4000],
            durability |-> [min |-> 35000, max |-> 60000],
            weight |-> [min |-> 20, max |-> 800],
            value |-> [min |-> 150000, max |-> 500000] ]

(* getArmorStatRanges: the ranges of each tier, every bound in hundredths. *)
getArmorStatRanges(tier) ==
    CASE tier = "Bronze" ->
          [ defense |-> [min |-> 300, max |-> 800],
            magicResistance |-> [min |-> 200, max |-> 800],
            elementalResistance |-> [min |-> 100, max |-> 500],
            durability |-> [min |-> 6000, max |-> 12000],
            weight |-> [min |-> 200, max |-> 1500],
            value |-> [min |-> 4000, max |-> 12000] ]
      [] tier = "Silver" ->
          [ defense |-> [min |-> 600, max |-> 1500],
            magicResistance |-> [min |-> 500, max |-> 1200],
            elementalResistance |-> [min |-> 300, max |-> 800],
            durability |-> [min |-> 10000, max |-> 18000],
            weight |-> [min |-> 180, max |-> 1600],
            value |-> [min |-> 8000, max |-> 25000] ]
      [] tier = "Gold" ->
          [ defense |-> [min |-> 1200, max |-> 2500],
            magicResistance |-> [min |-> 800, max |-> 1800],
            elementalResistance |-> [min |-> 500, max |-> 1200],
            durability |-> [min |-> 15000, max |-> 25000],
            weight |-> [min |-> 150, max |-> 1800],
            value |-> [min |-> 15000, max |-> 50000] ]
      [] tier = "Platinum" ->
          [ defense |-> [min |-> 2000, max |-> 4000],
            magicResistance |-> [min |-> 1500, max |-> 2800],
            elementalResistance |-> [min |-> 800, max |-> 1800],
            durability |-> [min |-> 22000, max |-> 35000],
            weight |-> [min |-> 120, max |-> 2000],
            value |-> [min |-> 30000, max |-> 100000] ]
      [] tier = "Legendary" ->
          [ defense |-> [min |-> 3500, max |-> 6500],
            magicResistance |-> [min |-> 2500, max |-> 4500],
            elementalResistance |-> [min |-> 1500, max |-> 3000],
            durability |-> [min |-> 30000, max |-> 50000],
            weight |-> [min |-> 100, max |-> 2500],
            value |-> [min |-> 60000, max |-> 200000] ]
      [] tier = "Celestial" ->
          [ defense |-> [min |-> 5500, max |-> 12000],
            magicResistance |-> [min |-> 4000, max |-> 8000],
            elementalResistance |-> [min |-> 2500, max |-> 5000],
            durability |-> [min |-> 45000, max |-> 80000],
            weight |-> [min |-> 80, max |-> 3000],
            value |-> [min |-> 120000, max |-> 400000] ]

(* getAccessoryStatRanges: the ranges of each tier, every bound in hundredths. *)
getAccessoryStatRanges(tier) ==
    CASE tier = "Bronze" ->
          [ health |-> [min |-> 1000, max |-> 3000],
            mana |-> [min |-> 800, max |-> 2500],
            stamina |-> [min |-> 500, max |-> 1500],
            attributes |-> [min |-> 100, max |-> 200],
            luck |-> [min |-> 100, max |-> 300],
            durability |-> [min |-> 3000, max |-> 8000],
            weight |-> [min |-> 10, max |-> 100],
            value |-> [min |-> 8000, max |-> 20000] ]
      [] tier = "Silver" ->
          [ health |-> [min |-> 2500, max |-> 5000],
            mana |-> [min |-> 2000, max |-> 4000],
            stamina |-> [min |-> 1200, max |-> 2500],
            attributes |-> [min |-> 100, max |-> 300],
            luck |-> [min |-> 200, max |-> 500],
            durability |-> [min |-> 6000, max |-> 12000],
            weight |-> [min |-> 10, max |-> 120],
            value |-> [min |-> 15000, max |-> 40000] ]
      [] tier = "Gold" ->
          [ health |-> [min |-> 4000, max |-> 8000],
            mana |-> [min |-> 3500, max |-> 6500],
            stamina |-> [min |-> 2000, max |-> 4000],
            attributes |-> [min |-> 200, max |-> 400],
            luck |-> [min |-> 300, max |-> 700],
            durability |-> [min |-> 10000, max |-> 18000],
            weight |-> [min |-> 10, max |-> 150],
            value |-> [min |-> 30000, max |-> 80000] ]
      [] tier = "Platinum" ->
          [ health |-> [min |-> 7000, max |-> 13000],
            mana |-> [min |-> 6000, max |-> 10000],
            stamina |-> [min |-> 3500, max |-> 6500],
            attributes |-> [min |-> 300, max |-> 600],
            luck |-> [min |-> 500, max |-> 1000],
            durability |-> [min |-> 15000, max |-> 25000],
            weight |-> [min |-> 10, max |-> 200],
            value |-> [min |-> 60000, max |-> 150000] ]
      [] tier = "Legendary" ->
          [ health |-> [min |-> 12000, max |-> 22000],
            mana |-> [min |-> 10000, max |-> 18000],
            stamina |-> [min |-> 6000, max |-> 11000],
            attributes |-> [min |-> 500, max |-> 1000],
            luck |-> [min |-> 800, max |-> 1500],
            durability |-> [min |-> 22000, max |-> 35000],
            weight |-> [min |-> 10, max |-> 250],
            value |-> [min |-> 120000, max |-> 300000] ]
      [] tier = "Celestial" ->
          [ health |-> [min |-> 20000, max |-> 40000],
            mana |-> [min |-> 18000, max |-> 35000],
            stamina |-> [min |-> 10000, max |-> 20000],
            attributes |-> [min |-> 800, max |-> 2000],
            luck |-> [min |-> 1200, max |-> 2500],
            durability |-> [min |-> 30000, max |-> 50000],
            weight |-> [min |-> 10, max |-> 300],
            value |-> [min |-> 250000, max |-> 600000] ]

(* getConsumableStatRanges: the ranges of each tier, every bound in hundredths. *)
getConsumableStatRanges(tier) ==
    CASE tier = "Bronze" ->
          [ healingPower |-> [min |-> 2500, max |-> 6000],
            manaPower |-> [min |-> 1500, max |-> 4000],
            duration |-> [min |-> 3000, max |-> 12000],
            stackSize |-> [min |-> 1000, max |-> 5000],
            value |-> [min |-> 500, max |-> 2500] ]
      [] tier = "Silver" ->
          [ healingPower |-> [min |-> 5000, max |-> 10000],
            manaPower |-> [min |-> 3500, max |-> 7500],
            duration |-> [min |-> 6000, max |-> 18000],
            stackSize |-> [min |-> 1500, max |-> 7500],
            value |-> [min |-> 1500, max |-> 5000] ]
      [] tier = "Gold" ->
          [ healingPower |-> [min |-> 8500, max |-> 16000],
            manaPower |-> [min |-> 6500, max |-> 12000],
            duration |-> [min |-> 12000, max |-> 30000],
            stackSize |-> [min |-> 2000, max |-> 9900],
            value |-> [min |-> 3000, max |-> 10000] ]
      [] tier = "Platinum" ->
          [ healingPower |-> [min |-> 14000, max |-> 25000],
            manaPower |-> [min |-> 11000, max |-> 20000],
            duration |-> [min |-> 18000, max |-> 45000],
            stackSize |-> [min |-> 2500, max |-> 9900],
            value |-> [min |-> 6000, max |-> 20000] ]
      [] tier = "Legendary" ->
          [ healingPower |-> [min |-> 22000, max |-> 40000],
            manaPower |-> [min |-> 18000, max |-> 35000],
            duration |-> [min |-> 30000, max |-> 60000],
            stackSize |-> [min |-> 3000, max |-> 9900],
            value |-> [min |-> 12000, max |-> 40000] ]
      [] tier = "Celestial" ->
          [ healingPower |-> [min |-> 35000, max |-> 75000],
            manaPower |-> [min |-> 30000, max |-> 60000],
            duration |-> [min |-> 45000, max |-> 90000],
            stackSize |-> [min |-> 5000, max |-> 9900],
            value |-> [min |-> 25000, max |-> 80000] ]

(* getMaterialStatRanges: the ranges of each tier, every bound in hundredths. *)
getMaterialStatRanges(tier) ==
    CASE tier = "Bronze" ->
          [ purity |-> [min |-> 6000, max |-> 7500],
            stackSize |-> [min |-> 5000, max |-> 20000],
            craftingBonus |-> [min |-> 200, max |-> 800],
            value |-> [min |-> 200, max |-> 1000] ]
      [] tier = "Silver" ->
          [ purity |-> [min |-> 7000, max |-> 8200],
            stackSize |-> [min |-> 10000, max |-> 30000],
            craftingBonus |-> [min |-> 500, max |-> 1200],
            value |-> [min |-> 500, max |-> 2000] ]
      [] tier = "Gold" ->
          [ purity |-> [min |-> 7800, max |-> 8800],
            stackSize |-> [min |-> 15000, max |-> 50000],
            craftingBonus |-> [min |-> 800, max |-> 1800],
            value |-> [min |-> 1000, max |-> 4000] ]
      [] tier = "Platinum" ->
          [ purity |-> [min |-> 8500, max |-> 9300],
            stackSize |-> [min |-> 20000, max |-> 75000],
            craftingBonus |-> [min |-> 1200, max |-> 2500],
            value |-> [min |-> 2000, max |-> 8000] ]
      [] tier = "Legendary" ->
          [ purity |-> [min |-> 9000, max |-> 9700],
            stackSize |-> [min |-> 30000, max |-> 99900],
            craftingBonus |-> [min |-> 2000, max |-> 3500],
            value |-> [min |-> 4000, max |-> 15000] ]
      [] tier = "Celestial" ->
          [ purity |-> [min |-> 9500, max |-> 9900],
            stackSize |-> [min |-> 50000, max |-> 99900],
            craftingBonus |-> [min |-> 3000, max |-> 5000],
            value |-> [min |-> 8000, max |-> 30000] ]
(* getRarityRange: the rarity band of a tier (whole percents). *)
getRarityRange(tier) ==
    CASE tier = "Bronze" -> [min |-> 5, max |-> 25]
      [] tier = "Silver" -> [min |-> 20, max |-> 40]
      [] tier = "Gold" -> [min |-> 35, max |-> 60]
      [] tier = "Platinum" -> [min |-> 55, max |-> 75]
      [] tier = "Legendary" -> [min |-> 70, max |-> 90]
      [] tier = "Celestial" -> [min |-> 85, max |-> 100]

(***************************************************************************)
(* Math.random.  One attempt of generateLoot draws a run of numbers from   *)
(* the random stream; the run is fixed by where the stream stands when the *)
(* attempt starts (seed), and the n-th call of the attempt returns         *)
(* Draw(seed, n) / RandSteps, a number of [0, 1).                          *)
(***************************************************************************)
Seeds == 0 .. (RandSteps - 1)

Draw(seed, n) == (seed + n) % RandSteps

(* Math.round of a value in hundredths: floor(x + 0.5), again in hundredths. *)
MathRound(v) == ((v + 50) \div 100) * 100

(* randomInRange: round((random * (max - min) + min) * 100) / 100. *)
randomInRange(range, d) ==
    ((2 * d * (range.max - range.min) + RandSteps) \div (2 * RandSteps)) + range.min

(* generateStatsForType: the baseline stats, a flat map from stat name to a
   number; the calls to Math.random are numbered in the order of the object
   literal, from n0. *)
generateStatsForType(itemType, tier, seed, n0) ==
    LET R(range, n) == randomInRange(range, Draw(seed, n0 + n))
    IN  CASE itemType = "Weapon" ->
              LET r == getWeaponStatRanges(tier)
              IN  [ damage |-> MathRound(R(r.damage, 0)),
                    attackSpeed |-> MathRound(R(r.attackSpeed, 1)),
                    criticalChance |-> MathRound(R(r.criticalChance, 2)),
                    criticalDamage |-> MathRound(R(r.criticalDamage, 3)),
                    range |-> R(r.range, 4),
                    accuracy |-> MathRound(R(r.accuracy, 5)),
                    durability |-> MathRound(R(r.durability, 6)),
                    weight |-> R(r.weight, 7),
                    value |-> MathRound(R(r.value, 8)) ]
          [] itemType = "Armor" ->
              LET r == getArmorStatRanges(tier)
              IN  [ defense |-> MathRound(R(r.defense, 0)),
                    magicResistance |-> MathRound(R(r.magicResistance, 1)),
                    fireResistance |-> MathRound(R(r.elementalResistance, 2)),
                    iceResistance |-> MathRound(R(r.elementalResistance, 3)),
                    lightningResistance |-> MathRound(R(r.elementalResistance, 4)),
                    poisonResistance |-> MathRound(R(r.elementalResistance, 5)),
                    durability |-> MathRound(R(r.durability, 6)),
                    weight |-> R(r.weight, 7),
                    value |-> MathRound(R(r.value, 8)) ]
          [] itemType = "Accessory" ->
              LET r == getAccessoryStatRanges(tier)
              IN  [ health |-> MathRound(R(r.health, 0)),
                    mana |-> MathRound(R(r.mana, 1)),
                    stamina |-> MathRound(R(r.stamina, 2)),
                    strength |-> MathRound(R(r.attributes, 3)),
                    dexterity |-> MathRound(R(r.attributes, 4)),
                    intelligence |-> MathRound(R(r.attributes, 5)),
                    wisdom |-> MathRound(R(r.attributes, 6)),
                    constitution |-> MathRound(R(r.attributes, 7)),
                    luck |-> MathRound(R(r.luck, 8)),
                    durability |-> MathRound(R(r.durability, 9)),
                    weight |-> R(r.weight, 10),
                    value |-> MathRound(R(r.value, 11)) ]
          [] itemType = "Consumable" ->
              LET r == getConsumableStatRanges(tier)
              IN  [ healingPower |-> MathRound(R(r.healingPower, 0)),
                    manaPower |-> MathRound(R(r.manaPower, 1)),
                    duration |-> MathRound(R(r.duration, 2)),
                    stackSize |-> MathRound(R(r.stackSize, 3)),
                    value |-> MathRound(R(r.value, 4)) ]
          [] itemType = "Material" ->
              LET r == getMaterialStatRanges(tier)
              IN  [ purity |-> MathRound(R(r.purity, 0)),
                    stackSize |-> MathRound(R(r.stackSize, 1)),
                    craftingBonus |-> MathRound(R(r.craftingBonus, 2)),
                    value |-> MathRound(R(r.value, 3)) ]
          [] OTHER ->
              [ durability |-> MathRound(R([min |-> 5000, max |-> 20000], 0)),
                weight |-> R([min |-> 50, max |-> 500], 1),
                value |-> MathRound(R([min |-> 5000, max |-> 50000], 2)) ]

(* The number of Math.random calls generateStatsForType makes. *)
StatDraws(itemType) ==
    CASE itemType \in {"Weapon", "Armor"} -> 9
      [] itemType = "Accessory" -> 12
      [] itemType = "Consumable" -> 5
      [] itemType = "Material" -> 4
      [] OTHER -> 3
(***************************************************************************)
(* JSON values.  A number is Num(v) with v in hundredths; a string where a *)
(* number is wanted is Str; a missing number is Missing.  A property that *)
(* is absent from a stats object is absent from the DOMAIN of its map.     *)
(***************************************************************************)
Num(v) == [t |-> "num", v |-> v]

Str == [t |-> "str"]

Missing == [t |-> "undefined"]

(* JavaScript truthiness, as far as `||` meets it in generateLoot. *)
TruthyString(s) == s \notin {Undef, Null, ""}

TruthyValue(x) == x.t = "str" \/ (x.t = "num" /\ x.v # 0)

(* getRandomSubType: options[Math.floor(Math.random() * options.length)].
   An itemType outside the table (undefined, or a type the model invented)
   makes `options` undefined and the read of options.length throw. *)
SubTypeOptions(itemType) ==
    CASE itemType = "Weapon" -> WeaponSubType
      [] itemType = "Armor" -> ArmorSubType
      [] itemType = "Accessory" -> AccessorySubType
      [] itemType = "Consumable" -> ConsumableSubType
      [] itemType = "Material" -> MaterialSubType
      [] itemType = "Rune" ->
            <<"Lesser Rune", "Greater Rune", "Master Rune", "Divine Rune">>
      [] itemType = "Artifact" ->
            <<"Ancient Relic", "Mystic Artifact", "Divine Artifact",
              "Primordial Remnant">>
      [] OTHER -> <<>>

getRandomSubTypeThrows(itemType) == itemType \notin ItemType

getRandomSubType(itemType, d) ==
    LET options == SubTypeOptions(itemType)
    IN  options[((d * Len(options)) \div RandSteps) + 1]

(* generatePrompt: what of the prompt depends on the request.  `threw` is the
   TypeError of getRandomSubType(undefined); `draws` is the number of
   Math.random calls made. *)
generatePrompt(options, seed) ==
    IF TruthyString(options.subType)
    THEN [threw |-> FALSE, tier |-> options.tier, subType |-> options.subType,
          itemType |-> options.itemType, setName |-> options.setName,
          draws |-> 0]
    ELSE IF getRandomSubTypeThrows(options.itemType)
    THEN [threw |-> TRUE, tier |-> options.tier, subType |-> Undef,
          itemType |-> options.itemType, setName |-> options.setName,
          draws |-> 0]
    ELSE [threw |-> FALSE, tier |-> options.tier,
          subType |-> getRandomSubType(options.itemType, Draw(seed, 0)),
          itemType |-> options.itemType, setName |-> options.setName,
          draws |-> 1]

(***************************************************************************)
(* types.ts: the stats schemas.  A zod object schema accepts a value when  *)
(* every required key holds a number and every optional key holds a number *)
(* or is absent, and its output keeps the schema's keys only.  The nested  *)
(* elementalResistance object is flattened ("elementalResistance.fire").   *)
(***************************************************************************)
BaseStatsKeys == {"durability", "weight", "value"}

WeaponStatsSchema ==
    [required |-> {"damage"},
     optional |-> BaseStatsKeys \cup
        {"attackSpeed", "criticalChance", "criticalDamage", "range", "accuracy"}]

ArmorStatsSchema ==
    [required |-> {"defense"},
     optional |-> BaseStatsKeys \cup
        {"magicResistance", "elementalResistance.fire", "elementalResistance.ice",
         "elementalResistance.lightning", "elementalResistance.poison",
         "elementalResistance.dark", "elementalResistance.light"}]

AccessoryStatsSchema ==
    [required |-> {},
     optional |-> BaseStatsKeys \cup
        {"health", "mana", "stamina", "strength", "dexterity", "intelligence",
         "wisdom", "constitution", "luck"}]

ConsumableStatsSchema ==
    [required |-> {},
     optional |-> BaseStatsKeys \cup
        {"healingPower", "manaPower", "duration", "stackSize"}]

MaterialStatsSchema ==
    [required |-> {},
     optional |-> BaseStatsKeys \cup {"purity", "stackSize", "craftingBonus"}]

SchemaAccepts(schema, stats) ==
    /\ \A k \in schema.required : k \in DOMAIN stats /\ stats[k].t = "num"
    /\ \A k \in schema.optional \cap DOMAIN stats : stats[k].t = "num"

SchemaOutput(schema, stats) ==
    [k \in (schema.required \cup schema.optional) \cap DOMAIN stats |-> stats[k].v]

(* ItemStatsSchema: z.union returns the output of the first member that
   accepts the value. *)
ItemStatsSchema ==
    <<WeaponStatsSchema, ArmorStatsSchema, AccessoryStatsSchema,
      ConsumableStatsSchema, MaterialStatsSchema>>

ItemStatsAccepts(stats) ==
    \E n \in DOMAIN ItemStatsSchema : SchemaAccepts(ItemStatsSchema[n], stats)

ItemStatsParse(stats) ==
    LET first == CHOOSE n \in DOMAIN ItemStatsSchema :
                    /\ SchemaAccepts(ItemStatsSchema[n], stats)
                    /\ \A m \in 1 .. (n - 1) : ~SchemaAccepts(ItemStatsSchema[m], stats)
    IN  SchemaOutput(ItemStatsSchema[first], stats)

(***************************************************************************)
(* transformToStructuredStats.  aiStats is the `stats` of the parsed       *)
(* response: [kind |-> "object", vals |-> map], or kind "undefined" (the   *)
(* property is missing) or "string" (spreading a string adds its indexes   *)
(* "0", "1", ... which no shape reads and every schema strips).            *)
(***************************************************************************)
AiVals(aiStats) == IF aiStats.kind = "object" THEN aiStats.vals ELSE << >>

MergeStats(baselineStats, aiStats) ==
    LET vals == AiVals(aiStats)
    IN  [k \in DOMAIN baselineStats \cup DOMAIN vals |->
            IF k \in DOMAIN vals THEN vals[k] ELSE Num(baselineStats[k])]

(* mergedStats.k || baselineStats.k *)
OrBaseline(mergedStats, baselineStats, k) ==
    IF TruthyValue(mergedStats[k]) THEN mergedStats[k] ELSE Num(baselineStats[k])

(* An object literal {to1: merged.from1, ...}: a key whose source is absent
   holds undefined and is left out of the map. *)
Pick(mergedStats, pairs) ==
    LET present == {p \in pairs : p[2] \in DOMAIN mergedStats}
    IN  [k \in {p[1] : p \in present} |->
            mergedStats[(CHOOSE p \in present : p[1] = k)[2]]]

Same(keys) == {<<k, k>> : k \in keys}

transformToStructuredStats(aiStats, itemType, tier, seed, n0) ==
    LET baselineStats == generateStatsForType(itemType, tier, seed, n0)
        mergedStats == MergeStats(baselineStats, aiStats)
    IN  CASE itemType = "Weapon" ->
              [k \in {"damage"} |-> OrBaseline(mergedStats, baselineStats, k)]
              @@ Pick(mergedStats,
                      Same({"attackSpeed", "criticalChance", "criticalDamage",
                            "range", "accuracy", "durability", "weight", "value"}))
          [] itemType = "Armor" ->
              [k \in {"defense"} |-> OrBaseline(mergedStats, baselineStats, k)]
              @@ Pick(mergedStats,
                      Same({"magicResistance", "durability", "weight", "value"})
                      \cup {<<"elementalResistance.fire", "fireResistance">>,
                            <<"elementalResistance.ice", "iceResistance">>,
                            <<"elementalResistance.lightning", "lightningResistance">>,
                            <<"elementalResistance.poison", "poisonResistance">>,
                            <<"elementalResistance.dark", "darkResistance">>,
                            <<"elementalResistance.light", "lightResistance">>})
          [] itemType = "Accessory" ->
              Pick(mergedStats,
                   Same({"health", "mana", "stamina", "strength", "dexterity",
                         "intelligence", "wisdom", "constitution", "luck",
                         "durability", "weight", "value"}))
          [] itemType = "Consumable" ->
              Pick(mergedStats,
                   Same({"healingPower", "manaPower", "duration", "stackSize",
                         "durability", "weight", "value"}))
          [] itemType = "Material" ->
              Pick(mergedStats,
                   Same({"purity", "stackSize", "craftingBonus", "durability",
                         "weight", "value"}))
          [] OTHER -> mergedStats
(***************************************************************************)
(* types.ts: LootItemSchema.  The object handed to parse is a record with  *)
(* the ten fields of the schema; other keys are stripped by zod.           *)
(***************************************************************************)
IsString(s) == s \notin {Undef, Null, NonString}

OptionalString(s) == s = Undef \/ IsString(s)

NoProperties == [kind |-> "undefined", list |-> << >>]

LootItemSchemaAccepts(obj) ==
    /\ IsString(obj.name)
    /\ obj.type \in ItemType
    /\ IsString(obj.subType)
    /\ obj.tier \in LootTier
    /\ IsString(obj.description)
    /\ ItemStatsAccepts(obj.stats)
    /\ obj.magicalProperties.kind \in {"undefined", "array"}
    /\ OptionalString(obj.lore)
    /\ OptionalString(obj.setName)
    /\ obj.rarity >= 0 /\ obj.rarity <= 100

LootItemSchemaParse(obj) ==
    [name |-> obj.name, type |-> obj.type, subType |-> obj.subType,
     tier |-> obj.tier, description |-> obj.description,
     stats |-> ItemStatsParse(obj.stats),
     magicalProperties |-> obj.magicalProperties,
     lore |-> obj.lore, setName |-> obj.setName, rarity |-> obj.rarity]

(***************************************************************************)
(* loot-generator.ts: SimplifiedLootItemSchema, the intermediate shape.    *)
(* generateLoot hands it to ollama.chat as `format`.                       *)
(***************************************************************************)
SimplifiedLootItemSchemaAccepts(obj) ==
    /\ IsString(obj.name)
    /\ IsString(obj.type)
    /\ IsString(obj.subType)
    /\ IsString(obj.tier)
    /\ IsString(obj.description)
    /\ obj.stats.kind = "object"
    /\ \A key \in DOMAIN obj.stats.vals : obj.stats.vals[key].t = "num"
    /\ obj.magicalProperties.kind \in {"undefined", "array"}
    /\ OptionalString(obj.lore)
    /\ OptionalString(obj.setName)
    /\ obj.rarity.t = "num"

(***************************************************************************)
(* The text-generation service.  A call is rejected ("error"), or answers  *)
(* text that JSON.parse rejects ("text"), or answers a JSON object         *)
(* ("json") whose properties are `obj`; a missing property is Undef (for   *)
(* stats: kind "undefined"; for rarity: Missing).                          *)
(***************************************************************************)
ServiceError == [kind |-> "error"]

InvalidJson == [kind |-> "text"]

Json(obj) == [kind |-> "json", obj |-> obj]

Stats(vals) == [kind |-> "object", vals |-> vals]

NoStats == [kind |-> "undefined", vals |-> << >>]

StringStats == [kind |-> "string", vals |-> << >>]

\* RollRarity without the `+ min` of the band.
RollRarityNoMin(tier, d) ==
    LET band == getRarityRange(tier)
    IN  (d * (band.max - band.min + 1)) \div RandSteps

(* The rarity roll: Math.floor(Math.random() * (max - min + 1) + min). *)
RollRarity(tier, d) ==
    LET band == getRarityRange(tier)
    IN  ((d * (band.max - band.min + 1)) \div RandSteps) + band.min

\* structuredType with the operands of `||` swapped.
structuredTypeModelFirst(options, generatedItem) ==
    IF TruthyString(generatedItem.type) THEN generatedItem.type ELSE options.itemType

(* type: options.itemType || generatedItem.type *)
structuredType(options, generatedItem) ==
    IF TruthyString(options.itemType) THEN options.itemType ELSE generatedItem.type

(* tier: options.tier *)
structuredTier(options, generatedItem) == options.tier

(* The body of one iteration of generateLoot after the service answered:
   JSON.parse, the structuredItem literal, the setName overwrite and
   LootItemSchema.parse.  n0 is the number of Math.random calls the prompt
   made.  The result is [outcome, item]; every exception ends in the catch
   of the loop. *)
Failed(outcome) == [outcome |-> outcome, item |-> Undef]

Reconcile(options, resp, seed, n0) ==
    IF resp.kind = "error" THEN Failed("service_error")
    ELSE IF resp.kind = "text" THEN Failed("parse_error")
    ELSE
    LET generatedItem == resp.obj
        type == structuredType(options, generatedItem)
        fromRequest == TruthyString(options.subType)
        fromModel == ~fromRequest /\ TruthyString(generatedItem.subType)
        atRandom == ~fromRequest /\ ~fromModel
        n1 == IF atRandom THEN n0 + 1 ELSE n0
        n2 == n1 + StatDraws(type)
    IN  IF atRandom /\ getRandomSubTypeThrows(type) THEN Failed("validation_error")
        ELSE
        LET structuredItem ==
              [name |-> generatedItem.name,
               description |-> generatedItem.description,
               magicalProperties |-> generatedItem.magicalProperties,
               lore |-> generatedItem.lore,
               type |-> type,
               tier |-> structuredTier(options, generatedItem),
               subType |-> IF fromRequest THEN options.subType
                           ELSE IF fromModel THEN generatedItem.subType
                           ELSE getRandomSubType(type, Draw(seed, n0)),
               stats |-> transformToStructuredStats(
                            generatedItem.stats, type, options.tier, seed, n1),
               rarity |-> RollRarity(options.tier, Draw(seed, n2)),
               setName |-> IF TruthyString(options.setName)
                           THEN options.setName ELSE generatedItem.setName]
        IN  IF LootItemSchemaAccepts(structuredItem)
            THEN [outcome |-> "ok", item |-> LootItemSchemaParse(structuredItem)]
            ELSE Failed("validation_error")
(***************************************************************************)
(* The inputs of the model: requests and service responses.                *)
(***************************************************************************)
Request(tier, count, itemType, subType, setName) ==
    [tier |-> tier, count |-> count, itemType |-> itemType,
     subType |-> subType, setName |-> setName]

Object(name, type, subType, tier, description, stats, rarity) ==
    [name |-> name, type |-> type, subType |-> subType, tier |-> tier,
     description |-> description, stats |-> stats,
     magicalProperties |-> NoProperties, lore |-> Undef, setName |-> Undef,
     rarity |-> rarity]

\* The response of the end-to-end scenario: one stat, a rarity out of band.
Flameheart ==
    Object("Flameheart", "Weapon", "Sword", "Gold", "A burning blade",
           Stats([damage |-> Num(3000)]), Num(999))

\* A response that claims another type, subType and tier than requested,
\* with a zero damage and defense and a fractional weight.
Aegis ==
    [Object("Aegis", "Armor", "Helmet", "Celestial", "A shining helm",
            Stats([damage |-> Num(0), defense |-> Num(0), weight |-> Num(1255),
                   fireResistance |-> Num(700)]), Num(50))
     EXCEPT !.lore = "Forged at dawn", !.setName = "Sunforged"]

\* A response without a name.
Nameless == [Flameheart EXCEPT !.name = Undef]

\* A response that holds a name and a description and nothing else.
Bare ==
    Object("Pebble", Undef, Undef, Undef, "A small stone", NoStats, Missing)

\* A response whose stats is a string.
TextStats == [Flameheart EXCEPT !.name = "Scribble", !.stats = StringStats]

\* A response whose stats map a name to a string.
WordyStats ==
    [Flameheart EXCEPT !.name = "Wordy",
        !.stats = Stats([damage |-> Str, defense |-> Str, value |-> Num(10000)])]

Responses ==
    {ServiceError, InvalidJson, Json(Flameheart), Json(Aegis), Json(Nameless),
     Json(Bare), Json(TextStats), Json(WordyStats)}

Requests ==
    { Request(tier, count, ts[1], ts[2], setName) :
        tier \in LootTier, count \in (-1) .. MaxCount,
        ts \in {<<"Weapon", Undef>>, <<"Weapon", "Sword">>, <<"Weapon", "Helmet">>,
                <<"Armor", Undef>>, <<Undef, Undef>>, <<Undef, "Ring">>},
        setName \in {Undef, "Dragonfire"} }

\* The inputs of SpecBatch.
BatchRequests ==
    { Request("Bronze", count, "Weapon", Undef, Undef) : count \in 0 .. MaxBatch }

BatchResponses ==
    {ServiceError, InvalidJson, Json(Nameless), Json(Flameheart), Json(Aegis)}

\* A response that supplies every stat of a weapon: two items made from it
\* differ in rarity only.
Twin ==
    Object("Twin", "Weapon", "Sword", "Bronze", "One of a pair",
           Stats([damage |-> Num(1000), attackSpeed |-> Num(500),
                  criticalChance |-> Num(500), criticalDamage |-> Num(15000),
                  range |-> Num(150), accuracy |-> Num(0),
                  durability |-> Num(10000), weight |-> Num(200),
                  value |-> Num(10000)]), Num(20))

Property(name, description) ==
    [name |-> name, description |-> description, magnitude |-> Missing]

Properties(list) == [kind |-> "array", list |-> list]

\* A response with magical properties out of order, and a lore.
Runed ==
    [Twin EXCEPT !.name = "Runed", !.lore = "Carved in the north",
        !.magicalProperties =
            Properties(<<Property("Storm", "Calls lightning"),
                         Property("Blaze", "Burns")>>)]

\* The inputs of SpecStore.
StoreRequests ==
    { Request("Bronze", count, "Weapon", "Sword", Undef) : count \in 1 .. 2 }

StoreResponses == {ServiceError, Json(Twin), Json(Runed)}

\* Items a caller hands to saveItem itself.
TestSword(rarity) ==
    [name |-> "Test Sword", type |-> "Weapon", subType |-> "Sword",
     tier |-> "Bronze", description |-> "A test sword",
     stats |-> [damage |-> 1000, value |-> 10000],
     magicalProperties |-> NoProperties, lore |-> Undef, setName |-> Undef,
     rarity |-> rarity]

StoreItems ==
    {TestSword(20), TestSword(15),
     [TestSword(20) EXCEPT !.name = "Other Sword", !.lore = "Old"]}

(***************************************************************************)
(* database.ts: LootDatabase.  `rows` is the items table in insertion      *)
(* order.  A row is the DatabaseItem that getItemById builds from it.      *)
(***************************************************************************)
\* The names of magical properties, in the order of String.localeCompare.
PropertyNames == <<"Blaze", "Frost", "Storm">>

NameIndex(name) == CHOOSE n \in DOMAIN PropertyNames : PropertyNames[n] = name

(* a.name.localeCompare(b.name): negative, zero or positive. *)
localeCompare(a, b) == NameIndex(a) - NameIndex(b)

(* Array.prototype.sort with the comparator of generateHash: a stable sort
   by name (insertion of each element after the last one not above it). *)
RECURSIVE SortByName(_)
SortByName(list) ==
    IF Len(list) <= 1 THEN list
    ELSE LET front == SortByName(SubSeq(list, 1, Len(list) - 1))
             x == list[Len(list)]
             keep == {n \in 0 .. Len(front) :
                        \A m \in 1 .. n : localeCompare(front[m].name, x.name) <= 0}
             at == CHOOSE n \in keep : \A m \in keep : m <= n
         IN  SubSeq(front, 1, at) \o <<x>> \o SubSeq(front, at + 1, Len(front))

(* item.magicalProperties?.sort(...): the array is sorted in place, so the
   item handed to generateHash is left with its properties sorted. *)
SortedInPlace(item) ==
    IF item.magicalProperties.kind = "array"
    THEN [item EXCEPT !.magicalProperties.list = SortByName(@)]
    ELSE item

\* generateHash with rarity among the hashed fields.
generateHashWithRarity(item) ==
    <<item.name, item.type, item.subType, item.tier, item.description,
      item.stats, SortedInPlace(item).magicalProperties, item.lore, item.setName,
      item.rarity>>

(* generateHash: SHA-256 of JSON.stringify of the nine content fields,
   modelled by the content itself (no two contents share a digest).
   JSON.stringify leaves out a property that is undefined and writes null
   for one that is null; Undef and Null keep the two apart. *)
generateHash(item) ==
    <<item.name, item.type, item.subType, item.tier, item.description,
      item.stats, SortedInPlace(item).magicalProperties, item.lore, item.setName>>

(* better-sqlite3 binds undefined as NULL; the column reads back as null. *)
BindText(s) == IF s = Undef THEN Null ELSE s

(* The row that the INSERT of saveItem writes, as getItemById reads it. *)
InsertedRow(item, id, hash, createdAt) ==
    [id |-> id, name |-> item.name, type |-> item.type, subType |-> item.subType,
     tier |-> item.tier, description |-> item.description, stats |-> item.stats,
     magicalProperties |-> item.magicalProperties,
     lore |-> BindText(item.lore), setName |-> BindText(item.setName),
     rarity |-> item.rarity, hash |-> hash, createdAt |-> createdAt]

(* getItemByHash: the positions of the rows with that hash (none or one). *)
getItemByHash(tbl, hash) == {n \in DOMAIN tbl : tbl[n].hash = hash}

(* getItemById: the DatabaseItem of the row with that id, or null. *)
getItemById(tbl, id) ==
    IF \E n \in DOMAIN tbl : tbl[n].id = id
    THEN tbl[CHOOSE n \in DOMAIN tbl : tbl[n].id = id]
    ELSE Null

(* What getItemByHash returns: the DatabaseItem of the row, or null. *)
ItemOfHash(tbl, hash) ==
    IF getItemByHash(tbl, hash) = {}
    THEN Null
    ELSE tbl[CHOOSE n \in getItemByHash(tbl, hash) : TRUE]

(* AUTOINCREMENT: no row is ever deleted, so the next id is the row count
   plus one. *)
lastInsertRowid(tbl) == Len(tbl) + 1

\* saveItem without the lookup by hash (and without the UNIQUE constraint).
saveItemNoLookup(tbl, item, createdAt) ==
    LET left == SortedInPlace(item)
        row == InsertedRow(left, lastInsertRowid(tbl), generateHash(item), createdAt)
    IN  [rows |-> Append(tbl, row), result |-> row, item |-> left]

\* saveItem with INSERT OR REPLACE in the place of the lookup: the row of an
\* identity already stored is written again.
saveItemReplace(tbl, item, createdAt) ==
    LET hash == generateHash(item)
        left == SortedInPlace(item)
        existing == getItemByHash(tbl, hash)
    IN  IF existing # {}
        THEN LET n == CHOOSE n \in existing : TRUE
                 row == InsertedRow(left, tbl[n].id, hash, tbl[n].createdAt)
             IN  [rows |-> [tbl EXCEPT ![n] = row], result |-> row, item |-> left]
        ELSE LET row == InsertedRow(left, lastInsertRowid(tbl), hash, createdAt)
             IN  [rows |-> Append(tbl, row), result |-> row, item |-> left]

(* saveItem: [rows, result, item]: the table after the call, the
   DatabaseItem returned, and the argument as the call leaves it. *)
saveItem(tbl, item, createdAt) ==
    LET hash == generateHash(item)
        left == SortedInPlace(item)
        existing == getItemByHash(tbl, hash)
    IN  IF existing # {}
        THEN [rows |-> tbl, result |-> tbl[CHOOSE n \in existing : TRUE],
              item |-> left]
        ELSE LET row == InsertedRow(left, lastInsertRowid(tbl), hash, createdAt)
             IN  [rows |-> Append(tbl, row), result |-> row, item |-> left]

(* getAllItems(): every row, newest first; only its length is read here. *)
getAllItemsLength(tbl) == Len(tbl)

\* Classify with `>=` in the place of `>`.
ClassifyAtLeast(counts, initialCount, finalCount) ==
    IF finalCount >= initialCount
    THEN [counts EXCEPT !.saved = @ + 1]
    ELSE [counts EXCEPT !.duplicates = @ + 1]

(* The counting of generateAndSaveLoot: [saved, duplicates] after one item. *)
Classify(counts, initialCount, finalCount) ==
    IF finalCount > initialCount
    THEN [counts EXCEPT !.saved = @ + 1]
    ELSE [counts EXCEPT !.duplicates = @ + 1]

(***************************************************************************)
(* The state.                                                              *)
(***************************************************************************)
VARIABLES
    pc,         \* where the running call stands: "idle", "loop" (at the test
                \* of the for loop), "awaiting" (ollama.chat is pending),
                \* "returned" (generateLoot has returned), "done",
                \* "threw" (generateAndSaveLoot rejected with a store
                \* error), "set" (at the test of generateLootSet's loop)
    op,         \* the operation called: "generateLoot", "generateAndSaveLoot",
                \* "saveItem", "generateLootSet", "getAllItems" or "list"
    options,    \* the GenerationOptions of the running call
    i,          \* the loop counter of generateLoot
    seed,       \* where the random stream stood when the attempt began
    items,      \* generateLoot's `items`, then `generatedItems`
    attempts,   \* history: one [outcome, item, resp] per iteration completed
    calls,      \* history: the prompt of every ollama.chat call made
    rows,       \* the items table
    now,        \* the clock behind new Date()
    k,          \* the number of generatedItems the save loop has handled
    counts,     \* [saved, duplicates] of generateAndSaveLoot
    lastSave,   \* history: the last saveItem call
    firstSaved, \* history: the argument and the DatabaseItem returned of the
                \* first save of each hash
    startCount, \* history: the row count when generateAndSaveLoot was called
    saveLog,    \* history: per generatedItem handled, whether its hash was
                \* absent just before its save, and the counts after it
    failure,    \* history: the store operation that threw, or "none"
    listed,     \* history: the last getAllItems call or list command
    setCall,    \* the arguments of the running generateLootSet call
    j,          \* the number of item types generateLootSet has handled
    setItems,   \* generateLootSet's `setItems`
    setLog,     \* history: per item type handled, what generateLoot returned
    auxLog,     \* history: the testConnection and getAvailableModels calls
    procs       \* the invocations that share the store in SpecRace

gen == <<options, i, seed, items, attempts, calls>>

store ==
    <<rows, now, k, counts, lastSave, firstSaved, startCount, saveLog, failure,
      listed>>

lootSet == <<setCall, j, setItems, setLog>>

aside == <<auxLog, procs>>

vars == <<pc, op, gen, store, lootSet, aside>>

NoOptions == Request("Bronze", 0, Undef, Undef, Undef)

NoCounts == [saved |-> 0, duplicates |-> 0]

NoSave == [called |-> FALSE]

NoQuery == [kind |-> "none"]

NoSet == [setName |-> Undef, tier |-> "Bronze", itemTypes |-> << >>]

Init ==
    /\ pc = "idle"
    /\ op = "generateLoot"
    /\ options = NoOptions
    /\ i = 0
    /\ seed = 0
    /\ items = << >>
    /\ attempts = << >>
    /\ calls = << >>
    /\ rows = << >>
    /\ now = 0
    /\ k = 0
    /\ counts = NoCounts
    /\ lastSave = NoSave
    /\ firstSaved = {}
    /\ startCount = 0
    /\ saveLog = << >>
    /\ failure = "none"
    /\ listed = NoQuery
    /\ setCall = NoSet
    /\ j = 0
    /\ setItems = << >>
    /\ setLog = << >>
    /\ auxLog = << >>
    /\ procs = << >>

\* The invocation is between two calls on the store.
Idle == pc \in {"idle", "done"}

(* generateLoot is entered: `items = []`, `i = 0`.  Nothing of the request
   is checked. *)
Enter(req) ==
    /\ options' = req
    /\ i' = 0
    /\ items' = << >>
    /\ attempts' = << >>
    /\ calls' = << >>
    /\ pc' = "loop"
    /\ UNCHANGED seed

(* A caller calls generateLoot(options). *)
Call(reqs) ==
    /\ pc = "idle"
    /\ \E req \in reqs : Enter(req)
    /\ op' = "generateLoot"
    /\ UNCHANGED <<store, lootSet, aside>>

\* PushItem with unshift in the place of push.
PushItemFront(list, item) == <<item>> \o list

(* items.push(validatedItem) *)
PushItem(list, item) == Append(list, item)

\* The `resp` of an attempt that made no service call.
NoResponse == [kind |-> "none"]

Attempt(r, resp) == [outcome |-> r.outcome, item |-> r.item, resp |-> resp]

\* CatchAndContinue that repeats the iteration that failed.
CatchAndRetry(outcome, resp) ==
    /\ attempts' = Append(attempts, Attempt(Failed(outcome), resp))
    /\ pc' = "loop"
    /\ UNCHANGED <<options, i, items>>

(* The catch of the loop body: log, and go on with the next iteration. *)
CatchAndContinue(outcome, resp) ==
    /\ attempts' = Append(attempts, Attempt(Failed(outcome), resp))
    /\ i' = i + 1
    /\ pc' = "loop"
    /\ UNCHANGED <<options, items>>

(* An iteration begins (i < options.count): the prompt is built and
   ollama.chat is called, or generatePrompt throws into the catch. *)
AttemptStart ==
    /\ pc = "loop"
    /\ i < options.count
    /\ \E s \in Seeds :
        LET prompt == generatePrompt(options, s)
        IN  IF prompt.threw
            THEN CatchAndContinue("prompt_error", NoResponse) /\ UNCHANGED <<seed, calls>>
            ELSE /\ seed' = s
                 /\ calls' = Append(calls, prompt)
                 /\ pc' = "awaiting"
                 /\ UNCHANGED <<options, i, items, attempts>>
    /\ UNCHANGED <<op, store, lootSet, aside>>

(* ollama.chat settles and the rest of the iteration runs. *)
ServiceReturn(resps) ==
    /\ pc = "awaiting"
    /\ \E resp \in resps :
        LET prompt == calls[Len(calls)]
            r == Reconcile(options, resp, seed, prompt.draws)
        IN  IF r.outcome = "ok"
            THEN /\ items' = PushItem(items, r.item)
                 /\ attempts' = Append(attempts, Attempt(r, resp))
                 /\ i' = i + 1
                 /\ pc' = "loop"
                 /\ UNCHANGED options
            ELSE CatchAndContinue(r.outcome, resp)
    /\ UNCHANGED <<seed, calls, op, store, lootSet, aside>>

(* The loop ends (i >= options.count): generateLoot returns items. *)
Return ==
    /\ pc = "loop"
    /\ ~(i < options.count)
    /\ pc' = "returned"
    /\ UNCHANGED <<op, gen, store, lootSet, aside>>

(***************************************************************************)
(* The store operations.                                                   *)
(***************************************************************************)
(* What one saveItem call does to the store and to the history.  The clock
   is read by the INSERT only; it has moved on since the last INSERT (dt = 1)
   or still shows the same millisecond (dt = 0). *)
Save(item) ==
    \E dt \in {0, 1} :
        LET s == saveItem(rows, item, now + dt)
            hash == generateHash(item)
        IN  /\ rows' = s.rows
            /\ now' = IF s.rows = rows THEN now ELSE now + dt
            /\ (s.rows = rows => dt = 0)
            /\ lastSave' = [called |-> TRUE, item |-> item, left |-> s.item,
                            hash |-> hash, before |-> rows, result |-> s.result]
            /\ firstSaved' =
                 IF \E f \in firstSaved : f.hash = hash
                 THEN firstSaved
                 ELSE firstSaved \cup
                        {[hash |-> hash, item |-> item, stored |-> s.result]}

(* A caller calls db.saveItem(item). *)
SaveItem(pool) ==
    /\ Idle
    /\ Len(rows) < MaxRows
    /\ \E item \in pool : Save(item)
    /\ op' = "saveItem"
    /\ pc' = "idle"
    /\ options' = NoOptions /\ i' = 0 /\ items' = << >>
    /\ attempts' = << >> /\ calls' = << >>
    /\ k' = 0 /\ counts' = NoCounts
    /\ startCount' = 0 /\ saveLog' = << >>
    /\ failure' = "none" /\ listed' = NoQuery
    /\ UNCHANGED <<seed, lootSet, aside>>

(* A caller calls generateAndSaveLoot(options): generateLoot runs first. *)
CallAndSave(reqs) ==
    /\ Idle
    /\ \E req \in reqs : Len(rows) + req.count <= MaxRows /\ Enter(req)
    /\ op' = "generateAndSaveLoot"
    /\ k' = 0
    /\ counts' = NoCounts
    /\ lastSave' = NoSave
    /\ startCount' = getAllItemsLength(rows)
    /\ saveLog' = << >>
    /\ failure' = "none"
    /\ listed' = NoQuery
    /\ UNCHANGED <<rows, now, firstSaved, lootSet, aside>>

(* One iteration of `for (const item of generatedItems)`: count, save,
   count again, classify.  saveItem sorts the item's properties in place,
   so generatedItems holds the sorted item afterwards. *)
SaveNext ==
    /\ pc = "returned"
    /\ op = "generateAndSaveLoot"
    /\ k < Len(items)
    /\ Save(items[k + 1])
    /\ items' = [items EXCEPT ![k + 1] = SortedInPlace(@)]
    /\ counts' = Classify(counts, getAllItemsLength(rows), getAllItemsLength(rows'))
    /\ k' = k + 1
    /\ saveLog' = Append(saveLog,
                         [fresh |-> getItemByHash(rows, generateHash(items[k + 1])) = {},
                          counts |-> counts'])
    /\ listed' = NoQuery
    /\ UNCHANGED <<pc, op, options, i, seed, attempts, calls, startCount,
                   failure, lootSet, aside>>

(* generateAndSaveLoot returns {generated, saved, duplicates}. *)
SaveDone ==
    /\ pc = "returned"
    /\ op = "generateAndSaveLoot"
    /\ k = Len(items)
    /\ pc' = "done"
    /\ UNCHANGED <<op, gen, store, lootSet, aside>>

\* Propagate with a catch that counts the item as a duplicate and goes on
\* with the loop.
CatchAsDuplicate(cnts) ==
    [pc |-> "returned", counts |-> [cnts EXCEPT !.duplicates = @ + 1]]

(* An exception of a store call inside the save loop: no try encloses the
   loop, so generateAndSaveLoot rejects with it and the invocation ends
   (App.tsx shows the message); saved and duplicates stay as they stand. *)
Propagate(cnts) == [pc |-> "threw", counts |-> cnts]

(* One iteration of the save loop in which a store call throws: the first
   getAllItems ("count"), the SELECT of saveItem ("lookup"), its INSERT
   ("insert", reached when the hash is absent), or the second getAllItems
   ("recount", after saveItem went through).  generateHash has sorted the
   item's properties before the SELECT runs. *)
SaveThrows ==
    /\ pc = "returned"
    /\ op = "generateAndSaveLoot"
    /\ k < Len(items)
    /\ \E at \in {"count", "lookup", "insert", "recount"} :
        /\ failure' = at
        /\ at = "insert" => getItemByHash(rows, generateHash(items[k + 1])) = {}
        /\ IF at = "recount"
           THEN Save(items[k + 1])
           ELSE UNCHANGED <<rows, now, lastSave, firstSaved>>
        /\ items' = IF at = "count" THEN items
                    ELSE [items EXCEPT ![k + 1] = SortedInPlace(@)]
    /\ LET out == Propagate(counts)
       IN  pc' = out.pc /\ counts' = out.counts
    /\ UNCHANGED <<op, options, i, seed, attempts, calls, k, startCount, saveLog,
                   listed, lootSet, aside>>

(***************************************************************************)
(* The specifications.                                                     *)
(***************************************************************************)
\* One generateLoot call after another, over every request and response.
Next ==
    \/ Call(Requests)
    \/ AttemptStart
    \/ ServiceReturn(Responses)
    \/ Return

Spec == Init /\ [][Next]_vars

\* Long batches: generateLoot with up to MaxBatch attempts.
NextBatch ==
    \/ Call(BatchRequests)
    \/ AttemptStart
    \/ ServiceReturn(BatchResponses)
    \/ Return

SpecBatch == Init /\ [][NextBatch]_vars

\* One invocation working on the store: saveItem and generateAndSaveLoot.
NextStore ==
    \/ SaveItem(StoreItems)
    \/ CallAndSave(StoreRequests)
    \/ AttemptStart
    \/ ServiceReturn(StoreResponses)
    \/ Return
    \/ SaveNext
    \/ SaveThrows
    \/ SaveDone

SpecStore == Init /\ [][NextStore]_vars

(***************************************************************************)
(* generateLootSet: one generateLoot call of count 1 per item type.        *)
(***************************************************************************)
\* PushSpread with the new items put in front.
PushSpreadFront(list, more) == more \o list

(* setItems.push(...items) *)
PushSpread(list, more) == list \o more

(* A caller calls generateLootSet(setName, tier, itemTypes). *)
CallSet(setNames, tiers, typeLists) ==
    /\ pc = "idle"
    /\ \E setName \in setNames, tier \in tiers, itemTypes \in typeLists :
        setCall' = [setName |-> setName, tier |-> tier, itemTypes |-> itemTypes]
    /\ op' = "generateLootSet"
    /\ j' = 0
    /\ setItems' = << >>
    /\ setLog' = << >>
    /\ pc' = "set"
    /\ UNCHANGED <<gen, store, aside>>

(* The loop takes the next item type and calls
   generateLoot({tier, count: 1, itemType, setName, model}). *)
SetNext ==
    /\ pc = "set"
    /\ j < Len(setCall.itemTypes)
    /\ Enter(Request(setCall.tier, 1, setCall.itemTypes[j + 1], Undef,
                     setCall.setName))
    /\ UNCHANGED <<op, store, lootSet, aside>>

(* generateLoot has returned `items`: they are pushed onto setItems. *)
SetCollect ==
    /\ pc = "returned"
    /\ op = "generateLootSet"
    /\ setItems' = PushSpread(setItems, items)
    /\ setLog' = Append(setLog, [itemType |-> options.itemType,
                                 options |-> options, attempts |-> attempts])
    /\ j' = j + 1
    /\ pc' = "set"
    /\ UNCHANGED <<op, gen, store, setCall, aside>>

(* The item types are exhausted: generateLootSet returns setItems. *)
SetReturn ==
    /\ pc = "set"
    /\ ~(j < Len(setCall.itemTypes))
    /\ pc' = "done"
    /\ UNCHANGED <<op, gen, store, lootSet, aside>>

\* The inputs of SpecSet: every list of up to MaxSetTypes different item
\* types.
SetTypes == {"Weapon", "Armor", "Accessory", "Rune"}

SetTypeLists ==
    UNION {{list \in [1 .. n -> SetTypes] :
                \A a, b \in 1 .. n : list[a] = list[b] => a = b} :
           n \in 0 .. MaxSetTypes}

SetResponses == {ServiceError, Json(Aegis)}

\* generateLootSet calls, over every list of item types.
NextSet ==
    \/ CallSet({"Dragonfire"}, {"Gold"}, SetTypeLists)
    \/ SetNext
    \/ AttemptStart
    \/ ServiceReturn(SetResponses)
    \/ Return
    \/ SetCollect
    \/ SetReturn

SpecSet == Init /\ [][NextSet]_vars

(***************************************************************************)
(* The tiers in the order of the LootTier enumeration, and the range table *)
(* generateStatsForType reads for an item type.                            *)
(***************************************************************************)
TierOrder == <<"Bronze", "Silver", "Gold", "Platinum", "Legendary", "Celestial">>

StatBearing == {"Weapon", "Armor", "Accessory", "Consumable", "Material"}

StatRanges(itemType, tier) ==
    CASE itemType = "Weapon" -> getWeaponStatRanges(tier)
      [] itemType = "Armor" -> getArmorStatRanges(tier)
      [] itemType = "Accessory" -> getAccessoryStatRanges(tier)
      [] itemType = "Consumable" -> getConsumableStatRanges(tier)
      [] itemType = "Material" -> getMaterialStatRanges(tier)

(***************************************************************************)
(* database.ts: getAllItems, and the list command of App.tsx.              *)
(***************************************************************************)
\* The `limit` argument: left out, or a number.
NoLimit == [given |-> FALSE, n |-> 0]

Limit(n) == [given |-> TRUE, n |-> n]

(* ORDER BY createdAt DESC: the orders in which the rows may come back.
   SQL leaves the order of rows of one createdAt open. *)
OrderByCreatedAtDesc(tbl) ==
    {order \in [DOMAIN tbl -> DOMAIN tbl] :
        /\ \A a, b \in DOMAIN tbl : order[a] = order[b] => a = b
        /\ \A a, b \in DOMAIN tbl :
             a < b => tbl[order[a]].createdAt >= tbl[order[b]].createdAt}

(* getAllItems(limit): `limit ? ... LIMIT ? : ...` takes the branch without
   LIMIT when limit is undefined or 0; SQLite reads a negative LIMIT as no
   limit. *)
getAllItems(tbl, limit, order) ==
    LET all == [n \in DOMAIN tbl |-> tbl[order[n]]]
    IN  IF limit.given /\ limit.n > 0 /\ limit.n < Len(all)
        THEN SubSeq(all, 1, limit.n)
        ELSE all

\* The limit App.tsx hands to getAllItems for the list command.
ListLimit == 20

(* A caller calls db.getAllItems(limit). *)
GetAllItems(limits) ==
    /\ Idle
    /\ \E limit \in limits, order \in OrderByCreatedAtDesc(rows) :
        listed' = [kind |-> "getAllItems", tier |-> Undef, limit |-> limit,
                   result |-> getAllItems(rows, limit, order)]
    /\ op' = "getAllItems"
    /\ pc' = "idle"
    /\ UNCHANGED <<gen, lootSet, aside, rows, now, k, counts, lastSave, firstSaved,
                   startCount, saveLog, failure>>

(* `ai-loot list --tier T --limit L`: App runs db.getAllItems(20) and shows
   the result; the tier and limit props are not read. *)
ListCommand(tiers, limits) ==
    /\ Idle
    /\ \E tier \in tiers, limit \in limits, order \in OrderByCreatedAtDesc(rows) :
        listed' = [kind |-> "list", tier |-> tier, limit |-> limit,
                   result |-> getAllItems(rows, Limit(ListLimit), order)]
    /\ op' = "list"
    /\ pc' = "idle"
    /\ UNCHANGED <<gen, lootSet, aside, rows, now, k, counts, lastSave, firstSaved,
                   startCount, saveLog, failure>>

\* The inputs of SpecQuery: items of two tiers, and items that differ in the
\* order of their magical properties only.
Blaze == Property("Blaze", "Burns")

Blaze2 == Property("Blaze", "Scorches")

Storm == Property("Storm", "Calls lightning")

RunedSword(list) ==
    [TestSword(20) EXCEPT !.name = "Runed Sword",
                          !.magicalProperties = Properties(list)]

QueryItems ==
    {TestSword(20), [TestSword(20) EXCEPT !.tier = "Gold"],
     RunedSword(<<Storm, Blaze>>), RunedSword(<<Blaze, Storm>>),
     RunedSword(<<Blaze, Blaze2>>), RunedSword(<<Blaze2, Blaze>>)}

QueryLimits == {NoLimit} \cup {Limit(n) : n \in 0 .. MaxLimit}

ListTiers == {Undef, "Gold"}

ListLimits == {Limit(n) : n \in 1 .. MaxLimit}

\* Saves, reads and list commands, one after another.
NextQuery ==
    \/ SaveItem(QueryItems)
    \/ GetAllItems(QueryLimits)
    \/ ListCommand(ListTiers, ListLimits)

SpecQuery == Init /\ [][NextQuery]_vars

(***************************************************************************)
(* testConnection and getAvailableModels.  What an async method hands its  *)
(* caller is a value (the promise resolves) or an error (it rejects).      *)
(***************************************************************************)
Resolved(value) == [raised |-> FALSE, value |-> value]

(* testModel: model || this.defaultModel *)
defaultModel == "llama3.1"

testModel(model) == IF TruthyString(model) THEN model ELSE defaultModel

(* testConnection: true after `await ollama.chat(...)`, false from the catch.
   `probe` is how the chat call settled: "ok" or "error". *)
testConnection(probe) == Resolved(probe = "ok")

\* getAvailableModels without its try/catch.
getAvailableModelsNoCatch(listing) ==
    IF listing.kind = "models"
    THEN Resolved([n \in DOMAIN listing.models |-> listing.models[n].name])
    ELSE [raised |-> TRUE, value |-> Undef]

(* getAvailableModels: response.models.map((model) => model.name), or []
   from the catch.  `listing` is how ollama.list settled: rejected
   ("error"), a response without `models` ("malformed": the map throws
   inside the try), or a response with its models. *)
getAvailableModels(listing) ==
    IF listing.kind = "models"
    THEN Resolved([n \in DOMAIN listing.models |-> listing.models[n].name])
    ELSE Resolved(<< >>)

(* A caller calls testConnection(model). *)
TestConnection(models, probes) ==
    /\ pc = "idle"
    /\ Len(auxLog) < MaxAuxCalls
    /\ \E model \in models, probe \in probes :
        auxLog' = Append(auxLog,
                         [op |-> "testConnection", model |-> testModel(model),
                          settled |-> [kind |-> probe],
                          result |-> testConnection(probe)])
    /\ UNCHANGED <<pc, op, gen, store, lootSet, procs>>

(* A caller calls getAvailableModels(). *)
GetAvailableModels(listings) ==
    /\ pc = "idle"
    /\ Len(auxLog) < MaxAuxCalls
    /\ \E listing \in listings :
        auxLog' = Append(auxLog,
                         [op |-> "getAvailableModels", model |-> Undef,
                          settled |-> listing,
                          result |-> getAvailableModels(listing)])
    /\ UNCHANGED <<pc, op, gen, store, lootSet, procs>>

\* The inputs of SpecAux.
Listings ==
    {[kind |-> "error"], [kind |-> "malformed"]}
    \cup {[kind |-> "models", models |-> models] :
            models \in UNION {[1 .. n -> [name : {"llama3.1", "mistral"}]] : n \in 0 .. MaxModels}}

\* The auxiliary calls, one after another.
NextAux ==
    \/ TestConnection({Undef, "mistral"}, {"ok", "error"})
    \/ GetAvailableModels(Listings)

SpecAux == Init /\ [][NextAux]_vars

(***************************************************************************)
(* database.ts: getStats.                                                  *)
(***************************************************************************)
(* The count query of one tier: SELECT COUNT ... WHERE tier = ? *)
CountOfTier(tbl, tier) == Cardinality({n \in DOMAIN tbl : tbl[n].tier = tier})

\* getStats with one GROUP BY query: only the tiers that have rows.
getStatsGrouped(tbl) ==
    [totalItems |-> Len(tbl),
     itemsByTier |-> [tier \in {tbl[n].tier : n \in DOMAIN tbl} |->
                        CountOfTier(tbl, tier)]]

(* getStats: the row count of the table, and one count per value of LootTier. *)
getStats(tbl) ==
    [totalItems |-> Len(tbl),
     itemsByTier |-> [tier \in LootTier |-> CountOfTier(tbl, tier)]]

(* A caller (the stats command of another invocation included) calls
   db.getStats() between two statements of the running invocation. *)
GetStats ==
    /\ pc \in {"idle", "returned", "done"}
    /\ listed' = [kind |-> "getStats", tier |-> Undef, limit |-> NoLimit,
                  result |-> getStats(rows)]
    /\ UNCHANGED <<pc, op, gen, lootSet, aside, rows, now, k, counts, lastSave,
                   firstSaved, startCount, saveLog, failure>>

\* The inputs of SpecStats: batches of several tiers.
StatsRequests ==
    { Request(tier, count, "Weapon", "Sword", Undef) :
        tier \in {"Gold", "Celestial"}, count \in 1 .. 2 }

StatsResponses == {ServiceError, Json(Twin)}

\* generateAndSaveLoot calls, and getStats in between.
NextStats ==
    \/ CallAndSave(StatsRequests)
    \/ AttemptStart
    \/ ServiceReturn(StatsResponses)
    \/ Return
    \/ SaveNext
    \/ SaveDone
    \/ GetStats

SpecStats == Init /\ [][NextStats]_vars

(***************************************************************************)
(* The inputs of SpecTypes: requests of every stat-bearing kind without a  *)
(* subType, and responses with type-specific, fractional and no stats.     *)
(***************************************************************************)
\* A consumable that supplies healingPower and stackSize.
Elixir ==
    Object("Elixir of Dawn", "Consumable", "Potion", "Bronze", "Warm to the touch",
           Stats([healingPower |-> Num(5000), stackSize |-> Num(500),
                  value |-> Num(2000)]), Num(10))

\* A weapon whose damage and value are not whole numbers.
Keen ==
    Object("Keen Edge", "Weapon", "Sword", "Bronze", "Sharper than it looks",
           Stats([damage |-> Num(1050), weight |-> Num(125),
                  value |-> Num(9999)]), Num(10))

TypeRequests ==
    { Request(tier, count, itemType, Undef, Undef) :
        tier \in {"Bronze", "Gold"}, count \in 1 .. MaxCount,
        itemType \in {"Weapon", "Accessory", "Consumable", "Material"} }

TypeResponses == {ServiceError, Json(Elixir), Json(Keen)}

\* generateLoot over the kinds of item.
NextTypes ==
    \/ Call(TypeRequests)
    \/ AttemptStart
    \/ ServiceReturn(TypeResponses)
    \/ Return

SpecTypes == Init /\ [][NextTypes]_vars

(***************************************************************************)
(* Several invocations against one store (two runs of the CLI on the same  *)
(* database file).  Each runs the save loop of generateAndSaveLoot in its  *)
(* own process; the store executes one statement at a time, and no         *)
(* transaction spans the statements of an iteration: getAllItems, the      *)
(* SELECT by hash, the INSERT, getAllItems.  procs[p] is invocation p.     *)
(***************************************************************************)
RaceLists ==
    UNION { [1 .. n -> StoreItems] : n \in 1 .. MaxRaceItems }

(* generateAndSaveLoot is invoked and generateLoot returns its items. *)
Invoke(lists) ==
    /\ Len(procs) < MaxInvocations
    /\ \E list \in lists :
         procs' = Append(procs,
                         [pc |-> "count", items |-> list, k |-> 0,
                          initialCount |-> 0, present |-> FALSE,
                          savedItem |-> Null, counts |-> NoCounts,
                          log |-> << >>])
    /\ UNCHANGED <<rows, now>>
    /\ UNCHANGED <<pc, op, gen, k, counts, lastSave, firstSaved, startCount,
                 saveLog, failure, listed, lootSet, auxLog>>

(* for (const item of generatedItems): initialCount = getAllItems().length,
   or the loop is over and the invocation returns. *)
RaceCount(p) ==
    /\ procs[p].pc = "count"
    /\ procs' = [procs EXCEPT ![p] =
                   IF @.k < Len(@.items)
                   THEN [@ EXCEPT !.pc = "lookup",
                                  !.initialCount = getAllItemsLength(rows)]
                   ELSE [@ EXCEPT !.pc = "done"]]
    /\ UNCHANGED <<rows, now>>
    /\ UNCHANGED <<pc, op, gen, k, counts, lastSave, firstSaved, startCount,
                 saveLog, failure, listed, lootSet, auxLog>>

(* saveItem, first statement: generateHash and getItemByHash.  A row found
   is returned at once. *)
RaceLookup(p) ==
    /\ procs[p].pc = "lookup"
    /\ LET item == procs[p].items[procs[p].k + 1]
           hash == generateHash(item)
           found == getItemByHash(rows, hash) # {}
       IN  procs' = [procs EXCEPT ![p] =
                       [@ EXCEPT !.pc = IF found THEN "recount" ELSE "insert",
                                 !.present = found,
                                 !.savedItem = ItemOfHash(rows, hash),
                                 !.items[procs[p].k + 1] = SortedInPlace(item)]]
    /\ UNCHANGED <<rows, now>>
    /\ UNCHANGED <<pc, op, gen, k, counts, lastSave, firstSaved, startCount,
                 saveLog, failure, listed, lootSet, auxLog>>

(* saveItem, second statement: the INSERT.  `hash TEXT UNIQUE NOT NULL`
   makes it throw when a row of that hash has appeared since the lookup;
   nothing catches the exception and the invocation ends with it. *)
RaceInsert(p) ==
    /\ procs[p].pc = "insert"
    /\ LET item == procs[p].items[procs[p].k + 1]
           hash == generateHash(item)
       IN  IF getItemByHash(rows, hash) # {}
           THEN /\ procs' = [procs EXCEPT ![p] = [@ EXCEPT !.pc = "threw"]]
                /\ UNCHANGED <<rows, now>>
           ELSE \E dt \in {0, 1} :
                  LET row == InsertedRow(item, lastInsertRowid(rows), hash, now + dt)
                  IN  /\ rows' = Append(rows, row)
                      /\ now' = now + dt
                      /\ procs' = [procs EXCEPT ![p] =
                                     [@ EXCEPT !.pc = "recount", !.savedItem = row]]
    /\ UNCHANGED <<pc, op, gen, k, counts, lastSave, firstSaved, startCount,
                 saveLog, failure, listed, lootSet, auxLog>>

(* finalCount = getAllItems().length, and the item is counted. *)
RaceRecount(p) ==
    /\ procs[p].pc = "recount"
    /\ LET after == Classify(procs[p].counts, procs[p].initialCount,
                             getAllItemsLength(rows))
       IN  procs' = [procs EXCEPT ![p] =
                       [@ EXCEPT !.pc = "count",
                                 !.k = @ + 1,
                                 !.counts = after,
                                 !.log = Append(@, [present |-> procs[p].present,
                                                    savedItem |-> procs[p].savedItem,
                                                    before |-> procs[p].counts,
                                                    counts |-> after])]]
    /\ UNCHANGED <<rows, now>>
    /\ UNCHANGED <<pc, op, gen, k, counts, lastSave, firstSaved, startCount,
                 saveLog, failure, listed, lootSet, auxLog>>

NextRace ==
    \/ Invoke(RaceLists)
    \/ \E p \in DOMAIN procs : RaceCount(p)
    \/ \E p \in DOMAIN procs : RaceLookup(p)
    \/ \E p \in DOMAIN procs : RaceInsert(p)
    \/ \E p \in DOMAIN procs : RaceRecount(p)

SpecRace == Init /\ [][NextRace]_vars

(***************************************************************************)
(* generateLoot as it runs: the loop goes on whenever it can, and every    *)
(* call of the service settles, with a response or with an error.          *)
(***************************************************************************)
SpecLive ==
    /\ Init
    /\ [][NextTypes]_vars
    /\ WF_vars(AttemptStart)
    /\ WF_vars(ServiceReturn(TypeResponses))
    /\ WF_vars(Return)

(***************************************************************************)
(* Items that come back from the store and are saved again.  What          *)
(* getItemById, getItemByHash and getAllItems return is the row: lore and  *)
(* setName are null where the item had none, magicalProperties is          *)
(* undefined where the column is NULL, and id, hash and createdAt are      *)
(* added.                                                                  *)
(***************************************************************************)
\* Every DatabaseItem the store can hand out.
StoredItems == {rows[n] : n \in DOMAIN rows}

(* A caller calls db.saveItem with an item of their own, or with an item
   read from the store. *)
NextReadBack ==
    \/ SaveItem(StoreItems)
    \/ SaveItem(StoredItems)

SpecReadBack == Init /\ [][NextReadBack]_vars

(***************************************************************************)
(* The claims.                                                             *)
(***************************************************************************)
Returned == pc = "returned" /\ op = "generateLoot"

RECURSIVE SuccessfulItems(_)
SuccessfulItems(log) ==
    IF log = << >> THEN << >>
    ELSE LET rest == SuccessfulItems(SubSeq(log, 1, Len(log) - 1))
             last == log[Len(log)]
         IN  IF last.outcome = "ok" THEN Append(rest, last.item) ELSE rest

Outcomes(log) == [n \in DOMAIN log |-> log[n].outcome]

\* C1: whatever the outcomes of the attempts, generateLoot with count N
\* returns after N attempts, and returns exactly the items of the successful
\* attempts, in attempt order.
C1_PartialFailure ==
    /\ items = SuccessfulItems(attempts)
    /\ (Returned /\ options.count >= 0) => Len(attempts) = options.count

\* C1 witness: a call of four attempts returned with outcomes fail, ok, fail,
\* ok, and its result is the item of attempt 2 then the item of attempt 4.
C1_Witness ==
    /\ Returned
    /\ Outcomes(attempts) = <<"service_error", "ok", "parse_error", "ok">>
    /\ items = <<attempts[2].item, attempts[4].item>>
    /\ attempts[2].item # attempts[4].item

\* The bands the claim states.
ClaimedBand(tier) ==
    CASE tier = "Bronze" -> <<5, 25>>
      [] tier = "Silver" -> <<20, 40>>
      [] tier = "Gold" -> <<35, 60>>
      [] tier = "Platinum" -> <<55, 75>>
      [] tier = "Legendary" -> <<70, 90>>
      [] tier = "Celestial" -> <<85, 100>>

\* C3: every item generateLoot produces has an integer rarity inside the
\* band of the request's tier, whatever rarity the response carried.
C3_RarityInBand ==
    \A n \in DOMAIN items :
        /\ items[n].rarity \in Int
        /\ items[n].rarity >= ClaimedBand(options.tier)[1]
        /\ items[n].rarity <= ClaimedBand(options.tier)[2]

\* C3 witness: a Gold request returned an item made from a response whose
\* rarity was 999.
C3_Witness ==
    /\ Returned
    /\ options.tier = "Gold"
    /\ \E n \in DOMAIN attempts :
        /\ attempts[n].outcome = "ok"
        /\ attempts[n].resp.obj.rarity = Num(999)
        /\ attempts[n].item \in Range(items)
        /\ attempts[n].item.rarity \in 35 .. 60

Hashes(tbl) == {tbl[n].hash : n \in DOMAIN tbl}

FirstSaveOf(hash) == CHOOSE f \in firstSaved : f.hash = hash

\* C2: after any sequence of saveItem calls the store holds exactly one row
\* per distinct identity hash saved, and a save of an item whose hash was
\* saved before adds no row and returns the StoredItem of the first save
\* unchanged (same id, hash, createdAt, rarity and content).
C2_SaveIdempotent ==
    /\ \A n, m \in DOMAIN rows : rows[n].hash = rows[m].hash => n = m
    /\ Hashes(rows) = {f.hash : f \in firstSaved}
    /\ lastSave.called =>
        /\ lastSave.result = FirstSaveOf(lastSave.hash).stored
        /\ lastSave.result \in Range(rows)
        /\ (lastSave.hash \in Hashes(lastSave.before) => rows = lastSave.before)

\* C2 witness: the same item was saved a second time with a single row in
\* the store, and the call returned that row.
C2_Witness ==
    /\ lastSave.called
    /\ lastSave.item = FirstSaveOf(lastSave.hash).item
    /\ lastSave.hash \in Hashes(lastSave.before)
    /\ Len(rows) = 1
    /\ lastSave.result = rows[1]

ContentFields(item) ==
    <<item.name, item.type, item.subType, item.tier, item.description,
      item.stats, item.magicalProperties, item.lore, item.setName>>

\* An item saved earlier that equals the item of the last save in the nine
\* content fields and differs from it in rarity.
RaritySiblings ==
    {f \in firstSaved :
        /\ ContentFields(f.item) = ContentFields(lastSave.item)
        /\ f.item.rarity # lastSave.item.rarity}

\* C4: saving an item that equals a saved item in name, type, subType, tier,
\* description, stats, magicalProperties, lore and setName and differs in
\* rarity creates no row and returns the stored item, which carries the
\* rarity of the first item.
C4_RarityNotHashed ==
    lastSave.called =>
        \A f \in RaritySiblings :
            /\ generateHash(f.item) = generateHash(lastSave.item)
            /\ rows = lastSave.before
            /\ lastSave.result = f.stored
            /\ lastSave.result.rarity = f.item.rarity

\* C4 witness: an item was saved after a sibling of another rarity, and the
\* call returned a row whose rarity is not the item's.
C4_Witness ==
    /\ lastSave.called
    /\ RaritySiblings # {}
    /\ lastSave.result.rarity # lastSave.item.rarity

LogBefore(n) == IF n = 1 THEN NoCounts ELSE saveLog[n - 1].counts

\* C5: in a generateAndSaveLoot call each generated item is counted exactly
\* once, in `saved` iff its hash was absent from the store just before its
\* save and in `duplicates` otherwise; saved + duplicates is the number of
\* items handled (generated.length at the return) and the store has grown
\* by exactly `saved` rows, as long as no store call has thrown.
C5_SavedOrDuplicate ==
    (op = "generateAndSaveLoot" /\ failure = "none") =>
        /\ Len(saveLog) = k
        /\ \A n \in DOMAIN saveLog :
            /\ saveLog[n].counts.saved =
                 LogBefore(n).saved + (IF saveLog[n].fresh THEN 1 ELSE 0)
            /\ saveLog[n].counts.duplicates =
                 LogBefore(n).duplicates + (IF saveLog[n].fresh THEN 0 ELSE 1)
        /\ (k > 0 => counts = saveLog[k].counts)
        /\ counts.saved + counts.duplicates = k
        /\ Len(rows) = startCount + counts.saved
        /\ pc = "done" => counts.saved + counts.duplicates = Len(items)

\* C5 witness: a call returned after generating two items of one identity
\* (different rarities) into a store that did not hold it: one saved, one
\* duplicate.
C5_Witness ==
    /\ pc = "done"
    /\ op = "generateAndSaveLoot"
    /\ Len(items) = 2
    /\ generateHash(items[1]) = generateHash(items[2])
    /\ items[1].rarity # items[2].rarity
    /\ counts = [saved |-> 1, duplicates |-> 1]
    /\ Len(rows) = startCount + 1

\* The subtype enumeration of an item type that has one.
SubTypeDomain(itemType) == Range(SubTypeOptions(itemType))

\* The request names a subType outside the subtype domain of its itemType.
RequestOutsideDomain ==
    /\ options.itemType \in {"Weapon", "Armor", "Accessory", "Consumable", "Material"}
    /\ TruthyString(options.subType)
    /\ options.subType \notin SubTypeDomain(options.itemType)

\* C6: a request whose subType lies outside the subtype domain of its
\* itemType fails validation before any call to the text-generation service
\* is made, and no item is produced for it.
C6_DomainCheckedBeforeCall ==
    (pc # "idle" /\ RequestOutsideDomain) => (calls = << >> /\ items = << >>)

\* C7: a request with count < 1 is rejected with an error: the call does not
\* complete normally.
C7_CountBelowOneRejected == ~(Returned /\ options.count < 1)

\* C8: every item generateLoot produces has the tier of the request, the
\* itemType of the request when it names one and the subType of the request
\* when it names one.
C8_RequestIsAuthoritative ==
    \A n \in DOMAIN items :
        /\ items[n].tier = options.tier
        /\ TruthyString(options.itemType) => items[n].type = options.itemType
        /\ TruthyString(options.subType) => items[n].subType = options.subType

\* C8 witness: a request for a Weapon, Sword of a tier below Celestial
\* returned an item made from a response that claimed Armor, Helmet,
\* Celestial.
C8_Witness ==
    /\ Returned
    /\ options.itemType = "Weapon" /\ options.subType = "Sword"
    /\ options.tier = "Silver"
    /\ \E n \in DOMAIN attempts :
        /\ attempts[n].outcome = "ok"
        /\ attempts[n].resp.obj.type = "Armor"
        /\ attempts[n].resp.obj.subType = "Helmet"
        /\ attempts[n].resp.obj.tier = "Celestial"
        /\ attempts[n].item \in Range(items)
        /\ attempts[n].item.type = "Weapon"
        /\ attempts[n].item.subType = "Sword"
        /\ attempts[n].item.tier = "Silver"

\* The stat keys of a Weapon or Armor item as <<key of the item, name in the
\* response, name in the range table>>.
StatKeysOf(itemType) ==
    IF itemType = "Weapon"
    THEN {<<key, key, key>> : key \in
            {"damage", "attackSpeed", "criticalChance", "criticalDamage", "range",
             "accuracy", "durability", "weight", "value"}}
    ELSE {<<key, key, key>> : key \in
            {"defense", "magicResistance", "durability", "weight", "value"}}
         \cup {<<"elementalResistance.fire", "fireResistance", "elementalResistance">>,
               <<"elementalResistance.ice", "iceResistance", "elementalResistance">>,
               <<"elementalResistance.lightning", "lightningResistance",
                 "elementalResistance">>,
               <<"elementalResistance.poison", "poisonResistance",
                 "elementalResistance">>}

RangesOf(itemType, tier) ==
    IF itemType = "Weapon" THEN getWeaponStatRanges(tier) ELSE getArmorStatRanges(tier)

\* The number the response supplies under a name, if it supplies one.
Supplies(resp, name) ==
    /\ resp.obj.stats.kind = "object"
    /\ name \in DOMAIN resp.obj.stats.vals
    /\ resp.obj.stats.vals[name].t = "num"

\* C9: for a Weapon or Armor request every stat key of a returned item
\* equals the number the response supplied for it whenever it supplied one
\* (damage and defense included), and a key the response did not supply
\* holds a value within the range of the request's tier for that key.
C9_ModelStatsPreferred ==
    options.itemType \in {"Weapon", "Armor"} =>
        \A n \in DOMAIN attempts :
            (/\ attempts[n].outcome = "ok"
             /\ SimplifiedLootItemSchemaAccepts(attempts[n].resp.obj)) =>
                \A key \in StatKeysOf(options.itemType) :
                    LET resp == attempts[n].resp
                        stats == attempts[n].item.stats
                        range == RangesOf(options.itemType, options.tier)[key[3]]
                    IN  IF Supplies(resp, key[2])
                        THEN /\ key[1] \in DOMAIN stats
                             /\ stats[key[1]] = resp.obj.stats.vals[key[2]].v
                        ELSE key[2] \notin DOMAIN AiVals(resp.obj.stats) =>
                             /\ key[1] \in DOMAIN stats
                             /\ stats[key[1]] >= range.min
                             /\ stats[key[1]] <= range.max

\* C10: an attempt whose response is not valid JSON, or lacks a required
\* field of the intermediate shape, or holds a field of the wrong type,
\* fails and contributes no item.
C10_ShapeMismatchFails ==
    \A n \in DOMAIN attempts :
        LET resp == attempts[n].resp
        IN  (\/ resp.kind = "text"
             \/ resp.kind = "json" /\ ~SimplifiedLootItemSchemaAccepts(resp.obj))
            => attempts[n].outcome # "ok"

\* C11: every item generateLoot returns with type Weapon holds a numeric
\* damage and every item with type Armor a numeric defense, whatever the
\* stat values of the response were: the stats of an item carry the
\* required keys of the shape of the item's own type.
C11_StatsValidateForType ==
    \A n \in DOMAIN attempts :
        attempts[n].outcome = "ok" =>
            LET item == attempts[n].item
            IN  /\ item.type = "Weapon" =>
                      WeaponStatsSchema.required \subseteq DOMAIN item.stats
                /\ item.type = "Armor" =>
                      ArmorStatsSchema.required \subseteq DOMAIN item.stats

\* C12: every item generateLoot returns whose type has a subtype
\* enumeration holds a subType of that enumeration, whether the subType came
\* from the request or from the response.
C12_SubTypeInEnumeration ==
    \A n \in DOMAIN attempts :
        (/\ attempts[n].outcome = "ok"
         /\ attempts[n].item.type \in
                {"Weapon", "Armor", "Accessory", "Consumable", "Material"})
        => attempts[n].item.subType \in SubTypeDomain(attempts[n].item.type)

\* The items of the item types handled so far whose attempt succeeded, in
\* the order of the item types.
RECURSIVE SetSuccesses(_)
SetSuccesses(log) ==
    IF log = << >> THEN << >>
    ELSE SetSuccesses(SubSeq(log, 1, Len(log) - 1))
         \o SuccessfulItems(log[Len(log)].attempts)

SetReturned == pc = "done" /\ op = "generateLootSet"

\* C13: generateLootSet runs one generation of count 1 per item type, in the
\* order given, and returns the items of the types whose attempt succeeded,
\* in that order, each with the requested setName and tier and the type of
\* its item type; a type whose attempt failed adds nothing.
C13_SetOfSuccessfulTypes ==
    /\ setItems = SetSuccesses(setLog)
    /\ \A n \in DOMAIN setLog :
        /\ setLog[n].options =
             Request(setCall.tier, 1, setCall.itemTypes[n], Undef, setCall.setName)
        /\ Len(setLog[n].attempts) = 1
        /\ \A m \in DOMAIN setLog[n].attempts :
             setLog[n].attempts[m].outcome = "ok" =>
                /\ setLog[n].attempts[m].item.setName = setCall.setName
                /\ setLog[n].attempts[m].item.tier = setCall.tier
                /\ setLog[n].attempts[m].item.type = setCall.itemTypes[n]
    /\ SetReturned => Len(setLog) = Len(setCall.itemTypes)

\* C13 witness: a set of Weapon, Armor, Accessory whose Armor attempt failed
\* returned two items, the Weapon then the Accessory, both of the set.
C13_Witness ==
    /\ SetReturned
    /\ setCall.itemTypes = <<"Weapon", "Armor", "Accessory">>
    /\ setLog[1].attempts[1].outcome = "ok"
    /\ setLog[2].attempts[1].outcome # "ok"
    /\ setLog[3].attempts[1].outcome = "ok"
    /\ Len(setItems) = 2
    /\ setItems[1] = setLog[1].attempts[1].item
    /\ setItems[2] = setLog[3].attempts[1].item
    /\ setItems[1].type = "Weapon" /\ setItems[2].type = "Accessory"
    /\ setItems[1].setName = "Dragonfire" /\ setItems[2].setName = "Dragonfire"
    /\ setLog[3].attempts[1].resp.obj.setName = "Sunforged"

\* C14: when a store call throws during generateAndSaveLoot the error
\* reaches the caller: the invocation ends there, the item at hand is
\* counted neither as saved nor as a duplicate, and the rows saved earlier
\* in the batch are still stored.
C14_StoreErrorPropagates ==
    failure # "none" =>
        /\ pc = "threw"
        /\ Len(saveLog) = k
        /\ counts = (IF k = 0 THEN NoCounts ELSE saveLog[k].counts)
        /\ counts.saved + counts.duplicates = k
        /\ Len(rows) >= startCount + counts.saved
        /\ \A n \in 1 .. k : generateHash(items[n]) \in Hashes(rows)

\* C14 witness: the INSERT of the second item of a batch threw after the
\* first item had been saved as a new row, and that row is still stored.
C14_Witness ==
    /\ failure = "insert"
    /\ pc = "threw"
    /\ k = 1
    /\ counts = [saved |-> 1, duplicates |-> 0]
    /\ Len(rows) = startCount + 1
    /\ rows[Len(rows)].hash = generateHash(items[1])
    /\ generateHash(items[2]) \notin Hashes(rows)

\* The range table of an item type does not fall from a tier to the next
\* tier, in either bound of any stat.
NonDecreasingAt(itemType, n) ==
    LET here == StatRanges(itemType, TierOrder[n])
        next == StatRanges(itemType, TierOrder[n + 1])
    IN  \A stat \in DOMAIN here :
            /\ here[stat].min <= next[stat].min
            /\ here[stat].max <= next[stat].max

\* C15: for every stat-bearing item type and every stat of its range table,
\* the min and the max of the range are non-decreasing along the tier order
\* Bronze, Silver, Gold, Platinum, Legendary, Celestial; stated for the
\* table of every generation under way, from its tier to the next.
C15_RangesNonDecreasing ==
    \A c \in DOMAIN calls :
        calls[c].itemType \in StatBearing =>
            \A n \in 1 .. (Len(TierOrder) - 1) :
                TierOrder[n] = calls[c].tier => NonDecreasingAt(calls[c].itemType, n)

\* The StoredItems saveItem has returned: the first of every identity, and
\* the last one returned.
StoredItemsReturned ==
    {f.stored : f \in firstSaved}
    \cup (IF lastSave.called THEN {lastSave.result} ELSE {})

\* C17: a StoredItem that saveItem has returned is what getItemById of its
\* id and getItemByHash of its hash return in every later state (same id,
\* hash, createdAt, rarity and content); getItemById of an id that was never
\* assigned returns null.
C17_StoredRowsImmutable ==
    /\ \A s \in StoredItemsReturned :
        /\ getItemById(rows, s.id) = s
        /\ ItemOfHash(rows, s.hash) = s
    /\ \A id \in 0 .. (MaxRows + 1) :
        id \notin {s.id : s \in StoredItemsReturned} => getItemById(rows, id) = Null

\* C17 witness: the first row is still what its save returned after another
\* row was inserted and after an item of the first row's identity, with
\* another rarity, was saved again.
C17_Witness ==
    /\ Len(rows) >= 2
    /\ lastSave.called
    /\ lastSave.before = rows
    /\ lastSave.result = rows[1]
    /\ lastSave.item.rarity # rows[1].rarity
    /\ \E f \in firstSaved :
        /\ f.stored.id = 1
        /\ f.stored = getItemById(rows, 1)
        /\ f.stored.createdAt < rows[2].createdAt
    /\ getItemById(rows, Len(rows) + 1) = Null

\* C18: a generateLoot request that names neither itemType nor subType
\* calls the text-generation service once per attempt, with a subtype
\* resolved at random, and returns an item for each attempt whose response
\* is valid.
C18_RandomItemPath ==
    (/\ Returned
     /\ ~TruthyString(options.itemType)
     /\ ~TruthyString(options.subType)
     /\ options.count >= 0)
    => /\ Len(calls) = options.count
       /\ \A c \in DOMAIN calls : TruthyString(calls[c].subType)
       /\ \A n \in DOMAIN attempts :
            (/\ attempts[n].resp.kind = "json"
             /\ SimplifiedLootItemSchemaAccepts(attempts[n].resp.obj))
            => attempts[n].outcome = "ok"

\* Two items are the same but for the order of their magical properties.
SameButForOrder(a, b) ==
    /\ a.magicalProperties.kind = "array"
    /\ b.magicalProperties.kind = "array"
    /\ [a EXCEPT !.magicalProperties = NoProperties]
         = [b EXCEPT !.magicalProperties = NoProperties]
    /\ Len(a.magicalProperties.list) = Len(b.magicalProperties.list)
    /\ \E p \in [DOMAIN a.magicalProperties.list -> DOMAIN a.magicalProperties.list] :
        /\ \A x, y \in DOMAIN p : p[x] = p[y] => x = y
        /\ \A x \in DOMAIN p :
             a.magicalProperties.list[x] = b.magicalProperties.list[p[x]]

\* C16: two items that differ by a permutation of their magicalProperties
\* only (properties of one name included) have the same hash and are stored
\* as one row.
C16_HashOrderIndependent ==
    \A f, g \in firstSaved :
        SameButForOrder(f.item, g.item) =>
            /\ f.hash = g.hash
            /\ f.stored = g.stored

\* The rows of a list, newest first.
IsNewestFirst(list) ==
    \A a, b \in DOMAIN list : a < b => list[a].createdAt >= list[b].createdAt

\* A list holds rows of the table, each once, and none that is older than a
\* row it leaves out.
IsNewestOf(list, tbl) ==
    /\ \A a \in DOMAIN list : \E n \in DOMAIN tbl : tbl[n] = list[a]
    /\ \A a, b \in DOMAIN list : list[a] = list[b] => a = b
    /\ \A n \in DOMAIN tbl :
        (\A a \in DOMAIN list : list[a] # tbl[n]) =>
            \A a \in DOMAIN list : list[a].createdAt >= tbl[n].createdAt

\* C19: getAllItems(limit) returns at most `limit` stored rows, the newest
\* ones, newest first, for every numeric limit (0 included), and every
\* stored row when no limit is given.
C19_LimitRespected ==
    listed.kind = "getAllItems" =>
        /\ IsNewestFirst(listed.result)
        /\ IsNewestOf(listed.result, rows)
        /\ IF listed.limit.given
           THEN Len(listed.result) <= listed.limit.n
           ELSE Len(listed.result) = Len(rows)

\* C20: the list command shows stored items of the requested tier only when
\* a tier is given, and at most `limit` items, newest first.
C20_ListFiltersAndLimits ==
    listed.kind = "list" =>
        /\ IsNewestFirst(listed.result)
        /\ IsNewestOf(listed.result, rows)
        /\ TruthyString(listed.tier) =>
             \A a \in DOMAIN listed.result : listed.result[a].tier = listed.tier
        /\ Len(listed.result) <= listed.limit.n

\* C21: testConnection and getAvailableModels never raise: testConnection
\* returns true iff the probe call completed without error, and
\* getAvailableModels returns the names of the service's models in order,
\* or the empty list when the listing call fails.
C21_AuxiliaryFailuresAbsorbed ==
    \A n \in DOMAIN auxLog :
        LET call == auxLog[n]
        IN  /\ ~call.result.raised
            /\ call.op = "testConnection" =>
                 call.result.value = (call.settled.kind = "ok")
            /\ call.op = "getAvailableModels" =>
                 IF call.settled.kind = "models"
                 THEN /\ Len(call.result.value) = Len(call.settled.models)
                      /\ \A m \in DOMAIN call.settled.models :
                           call.result.value[m] = call.settled.models[m].name
                 ELSE call.result.value = << >>

\* C21 witness: a probe that failed answered false, a listing that failed
\* answered the empty list, and a listing of two models answered their names
\* in order.
C21_Witness ==
    /\ Len(auxLog) = 3
    /\ auxLog[1].op = "testConnection"
    /\ auxLog[1].settled.kind = "error"
    /\ auxLog[1].result = Resolved(FALSE)
    /\ auxLog[2].op = "getAvailableModels"
    /\ auxLog[2].settled.kind = "error"
    /\ auxLog[2].result = Resolved(<< >>)
    /\ auxLog[3].op = "getAvailableModels"
    /\ auxLog[3].settled.kind = "models"
    /\ auxLog[3].result = Resolved(<<"mistral", "llama3.1">>)

RECURSIVE SumOver(_, _)
SumOver(f, keys) ==
    IF keys = {} THEN 0
    ELSE LET key == CHOOSE key \in keys : TRUE
         IN  f[key] + SumOver(f, keys \ {key})

\* C22: in every state reached through generateAndSaveLoot, getStats
\* reports totalItems equal to the number of stored rows and a count for
\* each of the six tiers (0 for a tier without rows), and the six counts sum
\* to totalItems.
C22_StatsMatchStore ==
    listed.kind = "getStats" =>
        LET stats == listed.result
        IN  /\ stats.totalItems = Len(rows)
            /\ DOMAIN stats.itemsByTier =
                 {"Bronze", "Silver", "Gold", "Platinum", "Legendary", "Celestial"}
            /\ \A tier \in DOMAIN stats.itemsByTier :
                 stats.itemsByTier[tier] =
                    Cardinality({n \in DOMAIN rows : rows[n].tier = tier})
            /\ SumOver(stats.itemsByTier, DOMAIN stats.itemsByTier) = stats.totalItems

\* C22 witness: getStats ran in the middle of a batch with a Gold and a
\* Celestial row stored and reported 0 for Bronze.
C22_Witness ==
    /\ listed.kind = "getStats"
    /\ pc = "returned"
    /\ op = "generateAndSaveLoot"
    /\ k = 1 /\ Len(items) = 2
    /\ listed.result.totalItems = 2
    /\ listed.result.itemsByTier["Gold"] = 1
    /\ listed.result.itemsByTier["Celestial"] = 1
    /\ listed.result.itemsByTier["Bronze"] = 0

\* The stats of its own that a Consumable or a Material carries.
OwnStats(itemType) ==
    IF itemType = "Consumable"
    THEN {"healingPower", "manaPower", "duration", "stackSize"}
    ELSE {"purity", "stackSize", "craftingBonus"}

\* C23: an item returned for a Consumable or Material request carries the
\* stats of its type, each equal to the number the response supplied or
\* else to a baseline value of the request's tier; validation drops none.
C23_OwnStatsKept ==
    options.itemType \in {"Consumable", "Material"} =>
        \A n \in DOMAIN attempts :
            (/\ attempts[n].outcome = "ok"
             /\ SimplifiedLootItemSchemaAccepts(attempts[n].resp.obj)) =>
                \A key \in OwnStats(options.itemType) :
                    LET resp == attempts[n].resp
                        stats == attempts[n].item.stats
                        range == StatRanges(options.itemType, options.tier)[key]
                    IN  /\ key \in DOMAIN stats
                        /\ IF Supplies(resp, key)
                           THEN stats[key] = resp.obj.stats.vals[key].v
                           ELSE /\ stats[key] >= range.min
                                /\ stats[key] <= range.max

\* The rows that hold the hash of an item.
RowsOfItem(item) == getItemByHash(rows, generateHash(item))

\* C24: when invocations interleave the lookup and the insert of saveItem for
\* items of one hash, the store holds exactly one row of that hash and
\* every one of them obtains that row: none ends with an error.
C24_RacingSavesBothSucceed ==
    \A p \in DOMAIN procs :
        /\ procs[p].pc # "threw"
        /\ \A n \in 1 .. Len(procs[p].items) :
               Cardinality(RowsOfItem(procs[p].items[n])) <= 1
        /\ \A n \in DOMAIN procs[p].log :
               RowsOfItem(procs[p].items[n]) =
                   {m \in DOMAIN rows : rows[m] = procs[p].log[n].savedItem}

\* C25: an invocation that runs beside another counts an item that was in
\* the store before its save in `duplicates` and not in `saved`, and an item
\* it inserts in `saved`.
C25_RacingCountsCorrect ==
    \A p \in DOMAIN procs :
        \A n \in DOMAIN procs[p].log :
            LET entry == procs[p].log[n]
            IN  IF entry.present
                THEN /\ entry.counts.duplicates = entry.before.duplicates + 1
                     /\ entry.counts.saved = entry.before.saved
                ELSE /\ entry.counts.saved = entry.before.saved + 1
                     /\ entry.counts.duplicates = entry.before.duplicates

\* A generateLoot call is under way or over, and its request names an itemType.
NamesItemType ==
    /\ op = "generateLoot"
    /\ pc # "idle"
    /\ options.itemType \in ItemType

\* The service calls of the current generateLoot call that have settled.
Settled ==
    Cardinality({n \in DOMAIN attempts : attempts[n].resp.kind # "none"})

\* C26: in a generateLoot call whose request names an itemType, one service
\* call is outstanding while the loop waits and none otherwise, no more than
\* `count` calls are made and exactly `count` have been made at the return;
\* and as every service call settles, the call returns.
C26_OneCallAtATimeAndReturns ==
    /\ [](NamesItemType =>
            /\ Len(calls) - Settled = (IF pc = "awaiting" THEN 1 ELSE 0)
            /\ Len(calls) <= options.count
            /\ (pc = "returned" => Len(calls) = options.count))
    /\ (NamesItemType /\ pc \in {"loop", "awaiting"}) ~> (pc = "returned")

C26_Witness ==
    /\ NamesItemType
    /\ pc = "returned"
    /\ options.count = MaxCount
    /\ Len(calls) = MaxCount
    /\ \E n \in DOMAIN attempts : attempts[n].outcome = "ok"
    /\ \E n \in DOMAIN attempts : attempts[n].outcome # "ok"

\* A value in hundredths that is a whole number.
IsWhole(v) == v % 100 = 0

\* C27: in every item generateLoot returns, every stat other than range and
\* weight is a whole number, whether the baseline filled it in or the
\* response supplied it.
C27_StatsAreWhole ==
    \A n \in DOMAIN items :
        \A key \in DOMAIN items[n].stats \ {"range", "weight"} :
            IsWhole(items[n].stats[key])

\* C28: when the request names no subType, the subType of the item an
\* attempt returns is the subtype that the attempt's prompt named.
C28_PromptSubTypeIsItemSubType ==
    ~TruthyString(options.subType) =>
        \A n \in DOMAIN attempts :
            attempts[n].outcome = "ok" =>
                attempts[n].item.subType =
                    calls[Cardinality({m \in 1 .. n :
                                         attempts[m].resp.kind # "none"})].subType

\* C29: saveItem leaves its argument as it was, the order of its
\* magicalProperties included, and the row it inserts holds the properties
\* in the order in which the item had them.
C29_SaveLeavesOrderAsProduced ==
    (lastSave.called /\ lastSave.item.magicalProperties.kind = "array") =>
        /\ lastSave.left = lastSave.item
        /\ getItemByHash(lastSave.before, lastSave.hash) = {} =>
               lastSave.result.magicalProperties = lastSave.item.magicalProperties

\* C30: saveItem of an item read back from the store returns the row it was
\* read from and adds no row, also when the item was stored without lore
\* or without setName.
C30_ReadBackIsDuplicate ==
    (lastSave.called /\ "id" \in DOMAIN lastSave.item) =>
        /\ rows = lastSave.before
        /\ lastSave.result = lastSave.item

=============================================================================
